---- MODULE Spec2Model ----
(***************************************************************************)
(* A model of the OPAQUE registration and login drivers of opaque-ke       *)
(* (src/src/opaque.rs) and of the slow hash wiring (src/src/slow_hash.rs). *)
(*                                                                         *)
(* The protocol drivers, their error mapping and their ownership rules are *)
(* translated from opaque.rs.  The primitives opaque.rs calls but does not *)
(* define (group, oprf, rkr_encryption, key_exchange, keypair) are         *)
(* modelled from their documented contracts: a prime-order subgroup of    *)
(* Z_p^* with real arithmetic, and hash / HMAC / AEAD / HKDF as free       *)
(* (collision-free) constructors.  A byte string that has been altered in  *)
(* transit carries a non-zero xor mask x.                                  *)
(***************************************************************************)
EXTENDS Integers, Sequences, FiniteSets, TLC

VARIABLES
    server_kp,      \* the server's static key pair
    client_rng,     \* the client's RNG: the position in its stream
    server_rng,     \* the server's RNG: the position in its stream
    creg,           \* the ClientRegistration held by the client, or NoState
    sreg,           \* the ServerRegistration / password file held by the server
    r1, r2, r3,     \* registration messages in flight
    reg_out,        \* what ClientRegistration::finish returned
    clogin,         \* the ClientLogin held by the client, or NoState
    slogin,         \* the ServerLogin held by the server, or NoState
    l1, l2, l3,     \* login messages in flight
    cres,           \* what ClientLogin::finish returned
    sstart,         \* what ServerLogin::start returned (its error, if any)
    sres,           \* what the last ServerLogin::finish returned
    run,            \* bookkeeping of the run: inputs used, calls counted
    ser,            \* a byte string handed to try_from, and what came of it
    sessions,       \* login sessions run side by side, one record for each
    call            \* one call of an operation on given inputs, and its result

vars == <<server_kp, client_rng, server_rng, creg, sreg, r1, r2, r3, reg_out,
          clogin, slogin, l1, l2, l3, cres, sstart, sres, run, ser,
          sessions, call>>

rngVars == <<client_rng, server_rng>>
regVars == <<creg, sreg, r1, r2, r3, reg_out>>
loginVars == <<clogin, slogin, l1, l2, l3, cres, sstart, sres>>

-----------------------------------------------------------------------------
(* Bounds of the model *)

\* scalars the RNGs return: 1..MaxScalar; an RNG is seeded with 0..MaxScalar-1
MaxScalar == 2
\* login sessions per run (one after the other)
MaxLogins == 1
\* ServerLogin::finish invocations per ServerLogin
MaxServerFinish == 2
\* bytes by which a byte string handed to try_from may exceed the wire length
MaxExtra == 1

RngScalars == 1..MaxScalar
RngSeeds == 0..(MaxScalar - 1)

\* a caller-owned seeded RNG: its draws follow from its seed, nonces never repeat
RandomScalar(rng) == 1 + (rng % MaxScalar)
RandomNonce(rng) == rng

\* passwords are byte strings (of different lengths); a pepper is optional
Passwords == {<<1>>, <<2, 1>>}
NoPepper == <<>>
Peppers == {NoPepper, <<9>>}

-----------------------------------------------------------------------------
(* Values shared by all operations *)

NoState == [exists |-> FALSE]
NoMsg == [exists |-> FALSE]
NoResult == [called |-> FALSE]
NoSer == [type |-> "none"]
NoCall == [fn |-> "none"]

\* the login sessions that run side by side
Sessions == {1, 2}

NoSession == [exists |-> FALSE]
NoSessions == [i \in Sessions |-> NoSession]

Some(v) == [some |-> TRUE, v |-> v]
None == [some |-> FALSE]

Ok(v) == [called |-> TRUE, ok |-> TRUE, err |-> "", val |-> v]
Err(e) == [called |-> TRUE, ok |-> FALSE, err |-> e]

\* flipping the lowest bit of a byte
FlipBit(n) == IF n % 2 = 0 THEN n + 1 ELSE n - 1
\* flipping a bit of a hash / MAC / ciphertext output
FlipSym(v) == [v EXCEPT !.x = 1 - @]

-----------------------------------------------------------------------------
(* Group: the subgroup of order GroupOrder of Z_GroupModulus^* *)

GroupModulus == 23
GroupOrder == 11
Generator == 2

RECURSIVE Pow(_, _)
Pow(b, e) == IF e = 0 THEN 1 ELSE (b * Pow(b, e - 1)) % GroupModulus

scalar_invert(s) == CHOOSE x \in 1..(GroupOrder - 1) : (x * s) % GroupOrder = 1

\* the scalars other than zero
Scalars == 1..(GroupOrder - 1)

\* from_element_slice: only non-identity subgroup points are accepted
IsValidElement(e) == e \in 2..(GroupModulus - 1) /\ Pow(e, GroupOrder) = 1

from_element_slice(e) ==
    IF IsValidElement(e) THEN Ok(e) ELSE Err("SerializationError")

ScalarLen == 1

from_scalar_slice(bytes) ==
    IF Len(bytes) = ScalarLen /\ bytes[1] \in 0..(GroupOrder - 1)
    THEN Ok(bytes[1])
    ELSE Err("SerializationError")

scalar_as_bytes(scalar) == <<scalar>>

RECURSIVE EncodeBytes(_)
EncodeBytes(s) == IF s = <<>> THEN 0 ELSE Head(s) + 3 * EncodeBytes(Tail(s))

\* a map onto non-identity subgroup points, injective on the modelled inputs
hash_to_curve(bytes) ==
    Pow(Generator, 1 + (EncodeBytes(bytes) % (GroupOrder - 1)))

-----------------------------------------------------------------------------
(* Hash, slow hash, HKDF, HMAC, AEAD *)

Hash(data) == [hash |-> data, x |-> 0]

\* the output of a digest, as an array of bytes
DigestBytes(digest) == <<digest>>

\* input.to_vec(): a new Vec with the elements of the array, in order
ToVec(array) == [i \in 1..Len(array) |-> array[i]]

\* variant: the last byte of the input is lost
NoOpHashTruncates(input) == Ok(SubSeq(input, 1, Len(input) - 1))

\* NoOpHash::hash
NoOpHash(input) == Ok(ToVec(input))

Hmac(key, data) == [key |-> key, data |-> data, x |-> 0]

DERIVED_KEY_LEN == 32
STR_ENVU == "EnvU"

\* Hkdf::<Sha256>::new(None, ikm).expand(info, okm): len output bytes
HkdfExpand(ikm, info, len) == [ikm |-> ikm, info |-> info, len |-> len]
\* okm[from..to]
Slice(okm, from, to) == [of |-> okm, from |-> from, to |-> to]

\* lengths, in bytes of the model, of an AEAD nonce, an AEAD tag, an HMAC tag
NonceLen == 1
TagLen == 1
HmacTagLen == 1

\* the ciphertext with its tag: as many bytes as the plaintext, then the tag
AeadSeal(key, nonce, plaintext, aad) ==
    LET sealed == [key |-> key, nonce |-> nonce, pt |-> plaintext, aad |-> aad]
    IN [i \in 1..(Len(plaintext) + TagLen) |-> [of |-> sealed, at |-> i, x |-> 0]]

AeadOpen(key, nonce, ct, aad) ==
    IF Len(ct) < TagLen THEN Err("DecryptionHmacError")
    ELSE LET sealed == ct[1].of
         IN IF /\ ct = AeadSeal(sealed.key, sealed.nonce, sealed.pt, sealed.aad)
               /\ sealed.key = key /\ sealed.nonce = nonce /\ sealed.aad = aad
            THEN Ok(sealed.pt)
            ELSE Err("DecryptionHmacError")

-----------------------------------------------------------------------------
(* Envelope (RKRCiphertext) *)

RKREncrypt(encryption_key, hmac_key, plaintext, aad, nonce) ==
    LET ct == AeadSeal(encryption_key, nonce, plaintext, aad)
    IN [nonce |-> nonce,
        ciphertext |-> ct,
        hmac |-> Hmac(hmac_key, <<nonce, ct, aad>>)]

RKRDecrypt(envelope, encryption_key, hmac_key, aad) ==
    IF envelope.hmac # Hmac(hmac_key, <<envelope.nonce, envelope.ciphertext, aad>>)
    THEN Err("DecryptionHmacError")
    ELSE AeadOpen(encryption_key, envelope.nonce, envelope.ciphertext, aad)

KeyLen == 1

\* rkr_with_nonce_size(): the serialized envelope of a KeyLen-byte plaintext
RkrSize == NonceLen + KeyLen + TagLen + HmacTagLen

\* the serialized envelope: nonce || ciphertext (with its AEAD tag) || hmac
RKRToBytes(envelope) ==
    <<envelope.nonce>> \o envelope.ciphertext \o <<envelope.hmac>>

RKRFromBytes(bytes) ==
    IF Len(bytes) = RkrSize
    THEN Ok([nonce |-> bytes[1],
             ciphertext |-> SubSeq(bytes, NonceLen + 1, Len(bytes) - HmacTagLen),
             hmac |-> bytes[Len(bytes)]])
    ELSE Err("SerializationError")

-----------------------------------------------------------------------------
(* KeyPair *)

generate_random(sk) == [sk |-> sk, pk |-> Pow(Generator, sk)]

check_public_key(pk) ==
    IF IsValidElement(pk) THEN Ok(pk) ELSE Err("InvalidPublicKey")

KeyToArr(k) == <<k>>

KeyFromBytes(bytes) ==
    IF Len(bytes) = KeyLen THEN Ok(bytes[1]) ELSE Err("SerializationError")

-----------------------------------------------------------------------------
(* OPRF *)

generate_oprf1(password, pepper, r) ==
    [alpha |-> Pow(hash_to_curve(pepper \o password), r),
     blinding_factor |-> r]

generate_oprf2(alpha, oprf_key) ==
    IF IsValidElement(alpha)
    THEN Ok(Pow(alpha, oprf_key))
    ELSE Err("SerializationError")

generate_oprf3(password, beta, blinding_factor) ==
    NoOpHash(DigestBytes(Hash(<<password, Pow(beta, scalar_invert(blinding_factor))>>)))

\* variant: the key does not depend on the password
PasswordBlindDerivedKey(password, beta, blinding_factor) ==
    generate_oprf3(<<>>, beta, blinding_factor)

get_password_derived_key(password, beta, blinding_factor) ==
    generate_oprf3(password, beta, blinding_factor)

-----------------------------------------------------------------------------
(* Key exchange (triple Diffie-Hellman with MACs over the transcript) *)

KE1MessageToBytes(m) == <<m.client_nonce, m.client_e_pk>>

AkeKey(ikm, nonces, label) == [ikm |-> ikm, nonces |-> nonces, label |-> label]

derive_3dh_keys(dh1, dh2, dh3, client_nonce, server_nonce) ==
    LET ikm == <<dh1, dh2, dh3>>
        nonces == <<client_nonce, server_nonce>>
    IN [shared_secret |-> AkeKey(ikm, nonces, "shared_secret"),
        km2 |-> AkeKey(ikm, nonces, "km2"),
        km3 |-> AkeKey(ikm, nonces, "km3")]

generate_ke1(l1_component, client_e_sk, client_nonce) ==
    LET client_e_kp == generate_random(client_e_sk)
        ke1_message == [client_nonce |-> client_nonce,
                        client_e_pk |-> client_e_kp.pk]
    IN [state |-> [client_e_sk |-> client_e_kp.sk,
                   client_nonce |-> client_nonce,
                   hashed_l1 |-> Hash(l1_component \o KE1MessageToBytes(ke1_message))],
        msg |-> ke1_message]

generate_ke2(server_e_sk, server_nonce, l1_bytes, l2_bytes, client_e_pk, client_s_pk, server_s_sk, client_nonce) ==
    LET server_e_kp == generate_random(server_e_sk)
        keys == derive_3dh_keys(Pow(client_e_pk, server_e_kp.sk),
                                Pow(client_e_pk, server_s_sk),
                                Pow(client_s_pk, server_e_kp.sk),
                                client_nonce, server_nonce)
        hashed_transcript ==
            Hash(<<Hash(l1_bytes), l2_bytes, server_nonce, server_e_kp.pk>>)
    IN Ok([state |-> [km3 |-> keys.km3,
                      hashed_transcript |-> hashed_transcript,
                      shared_secret |-> keys.shared_secret],
           msg |-> [server_nonce |-> server_nonce,
                    server_e_pk |-> server_e_kp.pk,
                    mac |-> Hmac(keys.km2, hashed_transcript)]])

generate_ke3(l2_component, ke2_message, ke1_state, server_s_pk, client_s_sk) ==
    LET keys == derive_3dh_keys(Pow(ke2_message.server_e_pk, ke1_state.client_e_sk),
                                Pow(server_s_pk, ke1_state.client_e_sk),
                                Pow(ke2_message.server_e_pk, client_s_sk),
                                ke1_state.client_nonce, ke2_message.server_nonce)
        hashed_transcript ==
            Hash(<<ke1_state.hashed_l1, l2_component,
                   ke2_message.server_nonce, ke2_message.server_e_pk>>)
    IN IF ke2_message.mac # Hmac(keys.km2, hashed_transcript)
       THEN Err("KeyExchangeMacValidationError")
       ELSE Ok([state |-> [shared_secret |-> keys.shared_secret],
                msg |-> [mac |-> Hmac(keys.km3, hashed_transcript)]])

finish_ke(ke3_message, ke2_state) ==
    IF ke3_message.mac # Hmac(ke2_state.km3, ke2_state.hashed_transcript)
    THEN Err("KeyExchangeMacValidationError")
    ELSE Ok(ke2_state.shared_secret)

-----------------------------------------------------------------------------
(* Messages: to_bytes, and try_from with its validation of group elements *)

\* the call does not return: the thread panics
Panic == [called |-> TRUE, ok |-> FALSE, err |-> "panic"]

ElemLen == 1
KE1_MESSAGE_LEN == 2
KE2_MESSAGE_LEN == 3
KE3_MESSAGE_LEN == 1

\* check_slice_size(bytes, len, name)
check_slice_size(bytes, len) ==
    IF Len(bytes) = len THEN Ok(bytes) ELSE Err("SerializationError")

KE1MessageTryFrom(bytes) ==
    IF Len(bytes) # KE1_MESSAGE_LEN THEN Err("SerializationError")
    ELSE Ok([client_nonce |-> bytes[1], client_e_pk |-> bytes[2]])

KE2MessageToBytes(m) == <<m.server_nonce, m.server_e_pk, m.mac>>

KE2MessageTryFrom(bytes) ==
    IF Len(bytes) # KE2_MESSAGE_LEN THEN Err("SerializationError")
    ELSE Ok([server_nonce |-> bytes[1], server_e_pk |-> bytes[2], mac |-> bytes[3]])

KE3MessageToBytes(m) == <<m.mac>>

KE3MessageTryFrom(bytes) ==
    IF Len(bytes) # KE3_MESSAGE_LEN THEN Err("SerializationError")
    ELSE Ok([mac |-> bytes[1]])

RegisterFirstMessageToBytes(m) == <<m.alpha>>

\* GenericArray::from_slice panics unless the slice has the array's length
RegisterFirstMessageTryFrom(first_message_bytes) ==
    IF Len(first_message_bytes) # ElemLen THEN Panic
    ELSE LET alpha == from_element_slice(first_message_bytes[1])
         IN IF alpha.ok THEN Ok([alpha |-> alpha.val]) ELSE Err(alpha.err)

RegisterSecondMessageToBytes(m) == <<m.beta>>

RegisterSecondMessageTryFrom(second_message_bytes) ==
    LET checked_slice == check_slice_size(second_message_bytes, ElemLen)
    IN IF ~checked_slice.ok THEN Err(checked_slice.err)
       ELSE LET beta == from_element_slice(checked_slice.val[1])
            IN IF beta.ok THEN Ok([beta |-> beta.val]) ELSE Err(beta.err)

RegisterThirdMessageToBytes(m) == RKRToBytes(m.envelope) \o KeyToArr(m.client_s_pk)

\* variant: client_s_pk is taken as it comes, without check_public_key
ThirdMessageUncheckedKey(third_message_bytes) ==
    LET checked_bytes == check_slice_size(third_message_bytes, RkrSize + KeyLen)
    IN IF ~checked_bytes.ok THEN Err(checked_bytes.err)
       ELSE
       LET unchecked_client_s_pk ==
               KeyFromBytes(SubSeq(checked_bytes.val, RkrSize + 1, RkrSize + KeyLen))
           envelope == RKRFromBytes(SubSeq(checked_bytes.val, 1, RkrSize))
       IN IF ~unchecked_client_s_pk.ok THEN Err(unchecked_client_s_pk.err)
          ELSE IF ~envelope.ok THEN Err(envelope.err)
          ELSE Ok([envelope |-> envelope.val,
                   client_s_pk |-> unchecked_client_s_pk.val])

RegisterThirdMessageTryFrom(third_message_bytes) ==
    LET checked_bytes == check_slice_size(third_message_bytes, RkrSize + KeyLen)
    IN IF ~checked_bytes.ok THEN Err(checked_bytes.err)
       ELSE
       LET unchecked_client_s_pk ==
               KeyFromBytes(SubSeq(checked_bytes.val, RkrSize + 1, RkrSize + KeyLen))
       IN IF ~unchecked_client_s_pk.ok THEN Err(unchecked_client_s_pk.err)
          ELSE
          LET client_s_pk == check_public_key(unchecked_client_s_pk.val)
              envelope == RKRFromBytes(SubSeq(checked_bytes.val, 1, RkrSize))
          IN IF ~client_s_pk.ok THEN Err(client_s_pk.err)
             ELSE IF ~envelope.ok THEN Err(envelope.err)
             ELSE Ok([envelope |-> envelope.val, client_s_pk |-> client_s_pk.val])

LoginFirstMessageToBytes(m) == <<m.alpha>> \o KE1MessageToBytes(m.ke1_message)

\* variant: alpha is taken as it comes, without from_element_slice
FirstMessageUncheckedAlpha(first_message_bytes) ==
    IF Len(first_message_bytes) < ElemLen THEN Panic
    ELSE
    LET ke1_message ==
            KE1MessageTryFrom(SubSeq(first_message_bytes, ElemLen + 1,
                                     Len(first_message_bytes)))
    IN IF ~ke1_message.ok THEN Err(ke1_message.err)
       ELSE Ok([alpha |-> first_message_bytes[1], ke1_message |-> ke1_message.val])

\* &first_message_bytes[..elem_len] panics on a slice shorter than elem_len
LoginFirstMessageTryFrom(first_message_bytes) ==
    IF Len(first_message_bytes) < ElemLen THEN Panic
    ELSE
    LET alpha == from_element_slice(first_message_bytes[1])
        ke1_message ==
            KE1MessageTryFrom(SubSeq(first_message_bytes, ElemLen + 1,
                                     Len(first_message_bytes)))
    IN IF ~alpha.ok THEN Err(alpha.err)
       ELSE IF ~ke1_message.ok THEN Err(ke1_message.err)
       ELSE Ok([alpha |-> alpha.val, ke1_message |-> ke1_message.val])

LoginSecondMessageToBytes(m) ==
    <<m.beta>> \o RKRToBytes(m.envelope) \o KE2MessageToBytes(m.ke2_message)

LoginSecondMessageTryFrom(second_message_bytes) ==
    LET checked_slice ==
            check_slice_size(second_message_bytes, ElemLen + RkrSize + KE2_MESSAGE_LEN)
    IN IF ~checked_slice.ok THEN Err(checked_slice.err)
       ELSE
       LET beta == from_element_slice(checked_slice.val[1])
           envelope ==
               RKRFromBytes(SubSeq(checked_slice.val, ElemLen + 1, ElemLen + RkrSize))
           ke2_message ==
               KE2MessageTryFrom(SubSeq(checked_slice.val, ElemLen + RkrSize + 1,
                                        Len(checked_slice.val)))
       IN IF ~beta.ok THEN Err(beta.err)
          ELSE IF ~envelope.ok THEN Err(envelope.err)
          ELSE IF ~ke2_message.ok THEN Err(ke2_message.err)
          ELSE Ok([beta |-> beta.val, envelope |-> envelope.val,
                   ke2_message |-> ke2_message.val])

LoginThirdMessageToBytes(m) == KE3MessageToBytes(m.ke3_message)

LoginThirdMessageTryFrom(bytes) ==
    LET ke3_message == KE3MessageTryFrom(bytes)
    IN IF ~ke3_message.ok THEN Err(ke3_message.err)
       ELSE Ok([ke3_message |-> ke3_message.val])

-----------------------------------------------------------------------------
(* Registration *)

Held(s) == [exists |-> TRUE, s |-> s]
InFlight(m) == [exists |-> TRUE, m |-> m]

\* a buffer given back to the allocator, with the bytes it holds at that time
Buffer(name, bytes) == [buf |-> name, bytes |-> bytes]

Zeros(n) == [i \in 1..n |-> 0]

IsZeroized(bytes) == bytes = Zeros(Len(bytes))

\* Zeroize for ClientRegistration
ZeroizeClientRegistration(self) ==
    [self EXCEPT !.password = Zeros(Len(@)), !.blinding_factor = 0]

\* Drop for ClientRegistration: zeroize, then the fields are released
DropClientRegistration(self) ==
    LET z == ZeroizeClientRegistration(self)
    IN {Buffer("ClientRegistration.password", z.password),
        Buffer("ClientRegistration.blinding_factor", <<z.blinding_factor>>)}

\* what ClientRegistration::finish releases on its way out, Ok or Err: the
\* clone of the password moved into get_password_derived_key, a plain
\* Vec<u8>, and self
ClientRegistrationFinishReleased(self) ==
    {Buffer("ClientRegistration::finish.password_clone", self.password)}
        \cup DropClientRegistration(self)

\* the first message carries the hash of the password, not blinded
ClientRegistrationStartUnblinded(password, pepper, r) ==
    LET o == generate_oprf1(password, pepper, 1)
    IN [msg |-> [alpha |-> o.alpha],
        state |-> [blinding_factor |-> r,
                   password |-> password]]

\* ClientRegistration::start
ClientRegistrationStart(password, pepper, r) ==
    LET o == generate_oprf1(password, pepper, r)
    IN [msg |-> [alpha |-> o.alpha],
        state |-> [blinding_factor |-> o.blinding_factor,
                   password |-> password]]

\* variant: the export key is the slice of the encryption key
RegKdKeyFromEncSlice(okm) == Slice(okm, 0, DERIVED_KEY_LEN)

\* let kd_key = &okm[2 * DERIVED_KEY_LEN..] in ClientRegistration::finish
RegKdKey(okm) == Slice(okm, 2 * DERIVED_KEY_LEN, 3 * DERIVED_KEY_LEN)

\* the envelope seals the password next to the private key
ClientRegistrationFinishSealsPassword(self, r2m, server_s_pk, sk, nonce) ==
    LET client_static_keypair == generate_random(sk)
        password_derived_key ==
            get_password_derived_key(self.password, r2m.beta, self.blinding_factor)
    IN IF ~password_derived_key.ok THEN Err(password_derived_key.err)
       ELSE
       LET okm == HkdfExpand(password_derived_key.val, STR_ENVU, 3 * DERIVED_KEY_LEN)
           encryption_key == Slice(okm, 0, DERIVED_KEY_LEN)
           hmac_key == Slice(okm, DERIVED_KEY_LEN, 2 * DERIVED_KEY_LEN)
           kd_key == RegKdKey(okm)
           envelope == RKREncrypt(encryption_key, hmac_key,
                                  KeyToArr(client_static_keypair.sk) \o self.password,
                                  KeyToArr(server_s_pk), nonce)
       IN Ok([message |-> [envelope |-> envelope,
                           client_s_pk |-> client_static_keypair.pk],
              export_key |-> kd_key])

\* ClientRegistration::finish
ClientRegistrationFinish(self, r2m, server_s_pk, sk, nonce) ==
    LET client_static_keypair == generate_random(sk)
        password_derived_key ==
            get_password_derived_key(self.password, r2m.beta, self.blinding_factor)
    IN IF ~password_derived_key.ok THEN Err(password_derived_key.err)
       ELSE
       LET okm == HkdfExpand(password_derived_key.val, STR_ENVU, 3 * DERIVED_KEY_LEN)
           encryption_key == Slice(okm, 0, DERIVED_KEY_LEN)
           hmac_key == Slice(okm, DERIVED_KEY_LEN, 2 * DERIVED_KEY_LEN)
           kd_key == RegKdKey(okm)
           envelope == RKREncrypt(encryption_key, hmac_key,
                                  KeyToArr(client_static_keypair.sk),
                                  KeyToArr(server_s_pk), nonce)
       IN Ok([message |-> [envelope |-> envelope,
                           client_s_pk |-> client_static_keypair.pk],
              export_key |-> kd_key])

\* finish(self, ...): the ClientRegistration is moved into finish
AfterClientRegistrationFinish(self) == NoState

\* the oprf_key is made from the message, no draw is used
ServerRegistrationStartKeyFromMessage(message, oprf_key) ==
    LET key == 1 + (message.alpha % 2)
        beta == generate_oprf2(message.alpha, key)
    IN IF ~beta.ok THEN Err(beta.err)
       ELSE Ok([msg |-> [beta |-> beta.val],
                state |-> [envelope |-> None,
                           client_s_pk |-> None,
                           oprf_key |-> key]])

\* ServerRegistration::start
ServerRegistrationStart(message, oprf_key) ==
    LET beta == generate_oprf2(message.alpha, oprf_key)
    IN IF ~beta.ok THEN Err(beta.err)
       ELSE Ok([msg |-> [beta |-> beta.val],
                state |-> [envelope |-> None,
                           client_s_pk |-> None,
                           oprf_key |-> oprf_key]])

\* variant: a record that is already complete keeps its envelope
FinishKeepsStoredEnvelope(self, message) ==
    Ok([envelope |-> IF self.envelope.some THEN self.envelope
                     ELSE Some(message.envelope),
        client_s_pk |-> Some(message.client_s_pk),
        oprf_key |-> self.oprf_key])

\* ServerRegistration::finish
ServerRegistrationFinish(self, message) ==
    Ok([envelope |-> Some(message.envelope),
        client_s_pk |-> Some(message.client_s_pk),
        oprf_key |-> self.oprf_key])

\* variant: the envelope is written before client_s_pk
RecordBytesEnvelopeFirst(self) ==
    scalar_as_bytes(self.oprf_key)
      \o (IF self.envelope.some THEN RKRToBytes(self.envelope.v) ELSE <<>>)
      \o (IF self.client_s_pk.some THEN KeyToArr(self.client_s_pk.v) ELSE <<>>)

\* ServerRegistration::to_bytes
ServerRegistrationToBytes(self) ==
    scalar_as_bytes(self.oprf_key)
      \o (IF self.client_s_pk.some THEN KeyToArr(self.client_s_pk.v) ELSE <<>>)
      \o (IF self.envelope.some THEN RKRToBytes(self.envelope.v) ELSE <<>>)

\* the complete form is read, but the checked key is not put into the record
ServerRegistrationTryFromWithoutKey(bytes) ==
    IF Len(bytes) = ScalarLen
    THEN LET oprf_key == from_scalar_slice(bytes)
         IN IF ~oprf_key.ok THEN Err(oprf_key.err)
            ELSE Ok([oprf_key |-> oprf_key.val,
                     client_s_pk |-> None,
                     envelope |-> None])
    ELSE IF Len(bytes) # RkrSize + KeyLen + ScalarLen
    THEN Err("SerializationError")
    ELSE
    LET oprf_key == from_scalar_slice(SubSeq(bytes, 1, ScalarLen))
        unchecked_client_s_pk ==
            KeyFromBytes(SubSeq(bytes, ScalarLen + 1, ScalarLen + KeyLen))
        envelope == RKRFromBytes(SubSeq(bytes, Len(bytes) - RkrSize + 1, Len(bytes)))
    IN IF ~oprf_key.ok THEN Err(oprf_key.err)
       ELSE IF ~unchecked_client_s_pk.ok THEN Err(unchecked_client_s_pk.err)
       ELSE
       LET client_s_pk == check_public_key(unchecked_client_s_pk.val)
       IN IF ~client_s_pk.ok THEN Err(client_s_pk.err)
          ELSE IF ~envelope.ok THEN Err(envelope.err)
          ELSE Ok([envelope |-> Some(envelope.val),
                   client_s_pk |-> None,
                   oprf_key |-> oprf_key.val])

\* ServerRegistration::try_from
ServerRegistrationTryFrom(bytes) ==
    IF Len(bytes) = ScalarLen
    THEN LET oprf_key == from_scalar_slice(bytes)
         IN IF ~oprf_key.ok THEN Err(oprf_key.err)
            ELSE Ok([oprf_key |-> oprf_key.val,
                     client_s_pk |-> None,
                     envelope |-> None])
    ELSE IF Len(bytes) # RkrSize + KeyLen + ScalarLen
    THEN Err("SerializationError")
    ELSE
    LET oprf_key == from_scalar_slice(SubSeq(bytes, 1, ScalarLen))
        unchecked_client_s_pk ==
            KeyFromBytes(SubSeq(bytes, ScalarLen + 1, ScalarLen + KeyLen))
        envelope == RKRFromBytes(SubSeq(bytes, Len(bytes) - RkrSize + 1, Len(bytes)))
    IN IF ~oprf_key.ok THEN Err(oprf_key.err)
       ELSE IF ~unchecked_client_s_pk.ok THEN Err(unchecked_client_s_pk.err)
       ELSE
       LET client_s_pk == check_public_key(unchecked_client_s_pk.val)
       IN IF ~client_s_pk.ok THEN Err(client_s_pk.err)
          ELSE IF ~envelope.ok THEN Err(envelope.err)
          ELSE Ok([envelope |-> Some(envelope.val),
                   client_s_pk |-> Some(client_s_pk.val),
                   oprf_key |-> oprf_key.val])

-----------------------------------------------------------------------------
(* Login *)

\* ClientLogin::start
ClientLoginStart(password, pepper, r, client_e_sk, client_nonce) ==
    LET o == generate_oprf1(password, pepper, r)
        ke1 == generate_ke1(<<o.alpha>>, client_e_sk, client_nonce)
    IN [msg |-> [alpha |-> o.alpha, ke1_message |-> ke1.msg],
        state |-> [blinding_factor |-> o.blinding_factor,
                   password |-> password,
                   ke1_state |-> ke1.state]]

KE1_STATE_LEN == 3

KE1StateToBytes(state) ==
    <<state.client_e_sk, state.client_nonce, state.hashed_l1>>

KE1StateTryFrom(bytes) ==
    IF Len(bytes) # KE1_STATE_LEN THEN Err("SerializationError")
    ELSE Ok([client_e_sk |-> bytes[1], client_nonce |-> bytes[2],
             hashed_l1 |-> bytes[3]])

\* ClientLogin::to_bytes
ClientLoginToBytes(self) ==
    scalar_as_bytes(self.blinding_factor)
      \o KE1StateToBytes(self.ke1_state)
      \o self.password

\* variant: the restored state has an empty password
ClientLoginRestoredWithoutPassword(bytes) ==
    IF Len(bytes) < ScalarLen + KE1_STATE_LEN THEN Panic
    ELSE
    LET blinding_factor == from_scalar_slice(SubSeq(bytes, 1, ScalarLen))
        ke1_state ==
            KE1StateTryFrom(SubSeq(bytes, ScalarLen + 1, ScalarLen + KE1_STATE_LEN))
    IN IF ~blinding_factor.ok THEN Err(blinding_factor.err)
       ELSE IF ~ke1_state.ok THEN Err(ke1_state.err)
       ELSE Ok([blinding_factor |-> blinding_factor.val,
                password |-> <<>>,
                ke1_state |-> ke1_state.val])

\* ClientLogin::try_from; slicing beyond the end of bytes panics
ClientLoginTryFrom(bytes) ==
    IF Len(bytes) < ScalarLen THEN Panic
    ELSE
    LET blinding_factor == from_scalar_slice(SubSeq(bytes, 1, ScalarLen))
    IN IF ~blinding_factor.ok THEN Err(blinding_factor.err)
       ELSE IF Len(bytes) < ScalarLen + KE1_STATE_LEN THEN Panic
       ELSE
       LET ke1_state ==
               KE1StateTryFrom(SubSeq(bytes, ScalarLen + 1, ScalarLen + KE1_STATE_LEN))
           password == SubSeq(bytes, ScalarLen + KE1_STATE_LEN + 1, Len(bytes))
       IN IF ~ke1_state.ok THEN Err(ke1_state.err)
          ELSE Ok([blinding_factor |-> blinding_factor.val,
                   password |-> password,
                   ke1_state |-> ke1_state.val])

\* variant: the transcript leaves the envelope out
L2BytesWithoutEnvelope(l2m) == <<l2m.beta>>

\* let l2_bytes = [l2.beta.to_bytes(), l2.envelope.to_bytes()].concat()
ClientL2Bytes(l2m) == <<l2m.beta>> \o RKRToBytes(l2m.envelope)

\* variant: the export key is taken from the slice of the hmac key
KdKeyFromHmacSlice(okm) == Slice(okm, DERIVED_KEY_LEN, 2 * DERIVED_KEY_LEN)

\* let kd_key = &okm[2 * DERIVED_KEY_LEN..] in ClientLogin::finish
LoginKdKey(okm) == Slice(okm, 2 * DERIVED_KEY_LEN, 3 * DERIVED_KEY_LEN)

\* variant: the decryption error is passed on as it is
KeepDecryptError(e) == e

\* the map_err on the result of l2.envelope.decrypt
MapDecryptError(e) ==
    IF e = "DecryptionHmacError" THEN "InvalidLoginError" ELSE e

\* the envelope is opened under the associated data it was sealed with,
\* whatever server key the caller passes
ClientLoginFinishAnyServerKey(self, l2m, server_s_pk) ==
    LET l2_bytes == ClientL2Bytes(l2m)
        password_derived_key ==
            get_password_derived_key(self.password, l2m.beta, self.blinding_factor)
    IN IF ~password_derived_key.ok THEN Err(password_derived_key.err)
       ELSE
       LET okm == HkdfExpand(password_derived_key.val, STR_ENVU, 3 * DERIVED_KEY_LEN)
           encryption_key == Slice(okm, 0, DERIVED_KEY_LEN)
           hmac_key == Slice(okm, DERIVED_KEY_LEN, 2 * DERIVED_KEY_LEN)
           kd_key == LoginKdKey(okm)
           plaintext == RKRDecrypt(l2m.envelope, encryption_key, hmac_key,
                                   l2m.envelope.ciphertext[1].of.aad)
       IN IF ~plaintext.ok THEN Err(MapDecryptError(plaintext.err))
          ELSE
          LET client_s_sk == KeyFromBytes(plaintext.val)
          IN IF ~client_s_sk.ok THEN Err(client_s_sk.err)
             ELSE
             LET ke3 == generate_ke3(l2_bytes, l2m.ke2_message, self.ke1_state,
                                     server_s_pk, client_s_sk.val)
             IN IF ~ke3.ok THEN Err(ke3.err)
                ELSE Ok([message |-> [ke3_message |-> ke3.val.msg],
                         session_key |-> ke3.val.state.shared_secret,
                         export_key |-> kd_key])

\* ClientLogin::finish
ClientLoginFinish(self, l2m, server_s_pk) ==
    LET l2_bytes == ClientL2Bytes(l2m)
        password_derived_key ==
            get_password_derived_key(self.password, l2m.beta, self.blinding_factor)
    IN IF ~password_derived_key.ok THEN Err(password_derived_key.err)
       ELSE
       LET okm == HkdfExpand(password_derived_key.val, STR_ENVU, 3 * DERIVED_KEY_LEN)
           encryption_key == Slice(okm, 0, DERIVED_KEY_LEN)
           hmac_key == Slice(okm, DERIVED_KEY_LEN, 2 * DERIVED_KEY_LEN)
           kd_key == LoginKdKey(okm)
           plaintext == RKRDecrypt(l2m.envelope, encryption_key, hmac_key,
                                   KeyToArr(server_s_pk))
       IN IF ~plaintext.ok THEN Err(MapDecryptError(plaintext.err))
          ELSE
          LET client_s_sk == KeyFromBytes(plaintext.val)
          IN IF ~client_s_sk.ok THEN Err(client_s_sk.err)
             ELSE
             LET ke3 == generate_ke3(l2_bytes, l2m.ke2_message, self.ke1_state,
                                     server_s_pk, client_s_sk.val)
             IN IF ~ke3.ok THEN Err(ke3.err)
                ELSE Ok([message |-> [ke3_message |-> ke3.val.msg],
                         session_key |-> ke3.val.state.shared_secret,
                         export_key |-> kd_key])

\* Zeroize for ClientLogin, without the blinding factor
ZeroizePasswordOnly(self) ==
    [self EXCEPT !.password = Zeros(Len(@))]

\* Zeroize for ClientLogin
ZeroizeClientLogin(self) ==
    [self EXCEPT !.password = Zeros(Len(@)), !.blinding_factor = 0]

\* Drop for ClientLogin: zeroize, then the fields are released
DropClientLogin(self) ==
    LET z == ZeroizeClientLogin(self)
    IN {Buffer("ClientLogin.password", z.password),
        Buffer("ClientLogin.blinding_factor", <<z.blinding_factor>>)}

\* what ClientLogin::finish releases on its way out, Ok or Err: the clone of
\* the password moved into get_password_derived_key, a plain Vec<u8>, and
\* self. (The Key handed to generate_ke3 is released by code outside
\* opaque.rs and is not followed here.)
ClientLoginFinishReleased(self) ==
    {Buffer("ClientLogin::finish.password_clone", self.password)}
        \cup DropClientLogin(self)

\* variant: the ClientLogin is still there after finish
KeepClientLogin(self) == Held(self)

\* finish(self, ...): the ClientLogin is moved into finish
AfterClientLoginFinish(self) == NoState

\* the envelope sent carries a nonce that is not the stored one
ServerLoginStartFreshNonce(password_file, server_s_sk, l1m, server_e_sk, server_nonce) ==
    LET l1_bytes == LoginFirstMessageToBytes(l1m)
        beta == generate_oprf2(l1m.alpha, password_file.oprf_key)
    IN IF ~beta.ok THEN Err(beta.err)
       ELSE IF ~password_file.client_s_pk.some THEN Err("EncryptionError")
       ELSE IF ~password_file.envelope.some THEN Err("EncryptionError")
       ELSE
       LET client_s_pk == password_file.client_s_pk.v
           envelope == password_file.envelope.v
           l2_component == <<beta.val>> \o RKRToBytes(envelope)
           ke2 == generate_ke2(server_e_sk, server_nonce, l1_bytes, l2_component,
                               l1m.ke1_message.client_e_pk, client_s_pk,
                               server_s_sk, l1m.ke1_message.client_nonce)
       IN IF ~ke2.ok THEN Err(ke2.err)
          ELSE Ok([msg |-> [beta |-> beta.val,
                            envelope |-> [envelope EXCEPT !.nonce = FlipBit(@)],
                            ke2_message |-> ke2.val.msg],
                   state |-> [ke2_state |-> ke2.val.state]])

\* the server binds alpha only, not the whole first message
ServerLoginStartBindsAlphaOnly(password_file, server_s_sk, l1m, server_e_sk, server_nonce) ==
    LET l1_bytes == <<l1m.alpha>>
        beta == generate_oprf2(l1m.alpha, password_file.oprf_key)
    IN IF ~beta.ok THEN Err(beta.err)
       ELSE IF ~password_file.client_s_pk.some THEN Err("EncryptionError")
       ELSE IF ~password_file.envelope.some THEN Err("EncryptionError")
       ELSE
       LET client_s_pk == password_file.client_s_pk.v
           envelope == password_file.envelope.v
           l2_component == <<beta.val>> \o RKRToBytes(envelope)
           ke2 == generate_ke2(server_e_sk, server_nonce, l1_bytes, l2_component,
                               l1m.ke1_message.client_e_pk, client_s_pk,
                               server_s_sk, l1m.ke1_message.client_nonce)
       IN IF ~ke2.ok THEN Err(ke2.err)
          ELSE Ok([msg |-> [beta |-> beta.val,
                            envelope |-> envelope,
                            ke2_message |-> ke2.val.msg],
                   state |-> [ke2_state |-> ke2.val.state]])

\* ServerLogin::start
ServerLoginStart(password_file, server_s_sk, l1m, server_e_sk, server_nonce) ==
    LET l1_bytes == LoginFirstMessageToBytes(l1m)
        beta == generate_oprf2(l1m.alpha, password_file.oprf_key)
    IN IF ~beta.ok THEN Err(beta.err)
       ELSE IF ~password_file.client_s_pk.some THEN Err("EncryptionError")
       ELSE IF ~password_file.envelope.some THEN Err("EncryptionError")
       ELSE
       LET client_s_pk == password_file.client_s_pk.v
           envelope == password_file.envelope.v
           l2_component == <<beta.val>> \o RKRToBytes(envelope)
           ke2 == generate_ke2(server_e_sk, server_nonce, l1_bytes, l2_component,
                               l1m.ke1_message.client_e_pk, client_s_pk,
                               server_s_sk, l1m.ke1_message.client_nonce)
       IN IF ~ke2.ok THEN Err(ke2.err)
          ELSE Ok([msg |-> [beta |-> beta.val,
                            envelope |-> envelope,
                            ke2_message |-> ke2.val.msg],
                   state |-> [ke2_state |-> ke2.val.state]])

\* variant: the key exchange error is passed on as it is
KeepFinishKeError(e) == e

\* the map_err on the result of finish_ke
MapFinishKeError(e) ==
    IF e = "KeyExchangeMacValidationError" THEN "InvalidLoginError" ELSE e

\* variant: the session key is handed out without looking at the MAC
ServerLoginFinishUnchecked(self, message) ==
    Ok(self.ke2_state.shared_secret)

\* ServerLogin::finish
ServerLoginFinish(self, message) ==
    LET r == finish_ke(message.ke3_message, self.ke2_state)
    IN IF r.ok THEN r ELSE Err(MapFinishKeError(r.err))

\* finish(&self, ...): the ServerLogin is only borrowed by finish
AfterServerLoginFinish(self) == Held(self)

-----------------------------------------------------------------------------
(* The run: one registration, then logins one after the other, over a      *)
(* network that may alter one part of a message or of the stored envelope. *)

EnvelopeParts == {"nonce", "ciphertext", "hmac"}

FlipEnvelope(envelope, part) ==
    CASE part = "nonce" -> [envelope EXCEPT !.nonce = FlipBit(@)]
      [] part = "ciphertext" -> [envelope EXCEPT !.ciphertext[1] = FlipSym(@)]
      [] part = "hmac" -> [envelope EXCEPT !.hmac = FlipSym(@)]

IsPending(record) == ~record.envelope.some /\ ~record.client_s_pk.some
IsComplete(record) == record.envelope.some /\ record.client_s_pk.some

\* a valid public key that is not the server's
OtherServerPk == generate_random((server_kp.sk % (GroupOrder - 1)) + 1).pk

Init ==
    /\ client_rng \in RngSeeds
    /\ \E seed \in RngSeeds :
         /\ server_kp = generate_random(RandomScalar(seed))
         /\ server_rng = seed + 1
    /\ creg = NoState /\ sreg = NoState
    /\ r1 = NoMsg /\ r2 = NoMsg /\ r3 = NoMsg
    /\ reg_out = NoResult
    /\ clogin = NoState /\ slogin = NoState
    /\ l1 = NoMsg /\ l2 = NoMsg /\ l3 = NoMsg
    /\ cres = NoResult /\ sstart = NoResult /\ sres = NoResult
    /\ run = [reg_pw |-> <<>>, reg_pepper |-> <<>>,
              r3_forged |-> FALSE, file_flipped |-> FALSE,
              n_creg_finish |-> 0,
              n_logins |-> 0,
              login_pw |-> <<>>, login_pepper |-> <<>>, login_spk |-> 0,
              tamper |-> "none",
              file_in |-> NoState, l2_in |-> NoMsg, l3_in |-> NoMsg,
              n_clogin_finish |-> 0, n_sfinish |-> 0, n_saccept |-> 0,
              stale_ops |-> 0,
              released |-> {}]
    /\ ser = NoSer
    /\ sessions = NoSessions
    /\ call = NoCall

RegClientStart(password, pepper) ==
    /\ run.n_logins = 0
    /\ ~creg.exists /\ ~r1.exists
    /\ LET out == ClientRegistrationStart(password, pepper, RandomScalar(client_rng))
       IN /\ creg' = Held(out.state)
          /\ r1' = InFlight(out.msg)
    /\ client_rng' = client_rng + 1
    /\ run' = [run EXCEPT !.reg_pw = password, !.reg_pepper = pepper]
    /\ UNCHANGED <<call, sessions, ser, server_kp, server_rng, sreg, r2, r3, reg_out, loginVars>>

RegServerStart ==
    /\ run.n_logins = 0
    /\ r1.exists /\ ~sreg.exists
    /\ LET m == RegisterFirstMessageTryFrom(RegisterFirstMessageToBytes(r1.m))
       IN /\ m.ok
          /\ LET out == ServerRegistrationStart(m.val, RandomScalar(server_rng))
             IN /\ out.ok
                /\ r2' = InFlight(out.val.msg)
                /\ sreg' = Held(out.val.state)
    /\ server_rng' = server_rng + 1
    /\ UNCHANGED <<call, sessions, ser, server_kp, client_rng, creg, r1, r3, reg_out, loginVars, run>>

RegClientFinish ==
    /\ run.n_logins = 0
    /\ creg.exists /\ r2.exists
    /\ LET m == RegisterSecondMessageTryFrom(RegisterSecondMessageToBytes(r2.m))
       IN /\ m.ok
          /\ LET out == ClientRegistrationFinish(creg.s, m.val, server_kp.pk,
                                                 RandomScalar(client_rng),
                                                 RandomNonce(client_rng + 1))
             IN /\ reg_out' = out
                /\ r3' = IF out.ok THEN InFlight(out.val.message) ELSE r3
    /\ creg' = AfterClientRegistrationFinish(creg.s)
    /\ client_rng' = client_rng + 2
    /\ run' = [run EXCEPT !.n_creg_finish = @ + 1,
                          !.stale_ops = @ + (IF run.n_creg_finish > 0 THEN 1 ELSE 0),
                          !.released = @ \cup ClientRegistrationFinishReleased(creg.s)]
    /\ UNCHANGED <<call, sessions, ser, server_kp, server_rng, sreg, r1, r2, loginVars>>

\* the client gives the registration up: the ClientRegistration is dropped
RegClientDrop ==
    /\ run.n_logins = 0
    /\ creg.exists
    /\ creg' = NoState
    /\ run' = [run EXCEPT !.released = @ \cup DropClientRegistration(creg.s)]
    /\ UNCHANGED <<call, sessions, ser, server_kp, rngVars, sreg, r1, r2, r3, reg_out, loginVars>>

\* to_bytes(&self) on the ClientRegistration: reads the state, changes nothing
RegClientToBytes ==
    /\ creg.exists
    /\ run' = [run EXCEPT
                 !.stale_ops = @ + (IF run.n_creg_finish > 0 THEN 1 ELSE 0)]
    /\ UNCHANGED <<call, sessions, ser, server_kp, rngVars, regVars, loginVars>>

RegServerFinish ==
    /\ run.n_logins = 0
    /\ sreg.exists /\ r3.exists
    /\ LET m == RegisterThirdMessageTryFrom(RegisterThirdMessageToBytes(r3.m))
       IN /\ m.ok
          /\ LET out == ServerRegistrationFinish(sreg.s, m.val)
             IN /\ out.ok
                /\ sreg' = Held(out.val)
    /\ UNCHANGED <<call, sessions, ser, server_kp, rngVars, creg, r1, r2, r3, reg_out, loginVars, run>>

\* the server stores the record as bytes and loads it again
ServerRegistrationReload ==
    /\ sreg.exists
    /\ LET loaded == ServerRegistrationTryFrom(ServerRegistrationToBytes(sreg.s))
       IN /\ loaded.ok
          /\ sreg' = Held(loaded.val)
    /\ UNCHANGED <<call, sessions, ser, server_kp, rngVars, creg, r1, r2, r3, reg_out, loginVars, run>>

\* the third registration message is not authenticated: the network may
\* replace client_s_pk by a key of its own
ForgeR3(sk) ==
    /\ run.n_logins = 0
    /\ r3.exists /\ ~run.r3_forged
    /\ generate_random(sk).pk # r3.m.client_s_pk
    /\ r3' = InFlight([r3.m EXCEPT !.client_s_pk = generate_random(sk).pk])
    /\ run' = [run EXCEPT !.r3_forged = TRUE]
    /\ UNCHANGED <<call, sessions, ser, server_kp, rngVars, creg, sreg, r1, r2, reg_out, loginVars>>

\* one part of the stored envelope is altered
FlipStoredEnvelope(part) ==
    /\ run.n_logins = 0
    /\ sreg.exists /\ sreg.s.envelope.some /\ ~run.file_flipped
    /\ sreg' = Held([sreg.s EXCEPT !.envelope = Some(FlipEnvelope(@.v, part))])
    /\ run' = [run EXCEPT !.file_flipped = TRUE]
    /\ UNCHANGED <<call, sessions, ser, server_kp, rngVars, creg, r1, r2, r3, reg_out, loginVars>>

\* the buffers the registration released; those a login released are followed
\* until the next login starts (the ClientLogin of a login is finished or
\* dropped before the next one is started)
ReleasedByRegistration(released) ==
    {b \in released : b.buf \in {"ClientRegistration.password",
                                  "ClientRegistration.blinding_factor",
                                  "ClientRegistration::finish.password_clone"}}

LoginClientStart(password, pepper) ==
    /\ sreg.exists /\ ~clogin.exists
    /\ run.n_logins < MaxLogins
    /\ LET out == ClientLoginStart(password, pepper,
                                   RandomScalar(client_rng),
                                   RandomScalar(client_rng + 1),
                                   RandomNonce(client_rng + 2))
       IN /\ clogin' = Held(out.state)
          /\ l1' = InFlight(out.msg)
    /\ client_rng' = client_rng + 3
    /\ l2' = NoMsg /\ l3' = NoMsg /\ slogin' = NoState
    /\ cres' = NoResult /\ sstart' = NoResult /\ sres' = NoResult
    /\ run' = [run EXCEPT !.n_logins = @ + 1,
                          !.login_pw = password, !.login_pepper = pepper,
                          !.login_spk = 0, !.tamper = "none",
                          !.file_in = NoState, !.l2_in = NoMsg, !.l3_in = NoMsg,
                          !.n_clogin_finish = 0, !.n_sfinish = 0, !.n_saccept = 0,
                          !.released = ReleasedByRegistration(@)]
    /\ UNCHANGED <<call, sessions, ser, server_kp, server_rng, regVars>>

\* the client gives the login up: the ClientLogin is dropped
LoginClientDrop ==
    /\ clogin.exists
    /\ clogin' = NoState
    /\ run' = [run EXCEPT !.released = @ \cup DropClientLogin(clogin.s)]
    /\ UNCHANGED <<call, sessions, ser, server_kp, rngVars, regVars, slogin, l1, l2, l3,
                   cres, sstart, sres>>

\* to_bytes(&self) on the ClientLogin: reads the state, changes nothing
LoginClientToBytes ==
    /\ clogin.exists
    /\ run' = [run EXCEPT
                 !.stale_ops = @ + (IF run.n_clogin_finish > 0 THEN 1 ELSE 0)]
    /\ UNCHANGED <<call, sessions, ser, server_kp, rngVars, regVars, loginVars>>

\* the client pauses: the ClientLogin is serialized, dropped, and restored
\* from its bytes
LoginClientPauseResume ==
    /\ clogin.exists
    /\ LET restored == ClientLoginTryFrom(ClientLoginToBytes(clogin.s))
       IN /\ restored.ok
          /\ clogin' = Held(restored.val)
    /\ run' = [run EXCEPT !.released = @ \cup DropClientLogin(clogin.s)]
    /\ UNCHANGED <<call, sessions, ser, server_kp, rngVars, regVars, slogin, l1, l2, l3,
                   cres, sstart, sres>>

LoginServerStart ==
    /\ l1.exists /\ sreg.exists /\ ~sstart.called
    /\ LET m == LoginFirstMessageTryFrom(LoginFirstMessageToBytes(l1.m))
       IN /\ m.ok
          /\ LET out == ServerLoginStart(sreg.s, server_kp.sk, m.val,
                                         RandomScalar(server_rng),
                                         RandomNonce(server_rng + 1))
             IN /\ sstart' = IF out.ok THEN Ok(<<>>) ELSE out
                /\ slogin' = IF out.ok THEN Held(out.val.state) ELSE NoState
                /\ l2' = IF out.ok THEN InFlight(out.val.msg) ELSE NoMsg
    /\ server_rng' = server_rng + 2
    /\ run' = [run EXCEPT !.file_in = Held(sreg.s)]
    /\ UNCHANGED <<call, sessions, ser, server_kp, client_rng, regVars, clogin, l1, l3, cres, sres>>

LoginClientFinish(server_s_pk) ==
    /\ clogin.exists /\ l2.exists
    /\ LET m == LoginSecondMessageTryFrom(LoginSecondMessageToBytes(l2.m))
       IN /\ m.ok
          /\ LET out == ClientLoginFinish(clogin.s, m.val, server_s_pk)
             IN /\ cres' = out
                /\ l3' = IF out.ok THEN InFlight(out.val.message) ELSE l3
    /\ clogin' = AfterClientLoginFinish(clogin.s)
    /\ run' = [run EXCEPT !.login_spk = server_s_pk, !.l2_in = l2,
                          !.n_clogin_finish = @ + 1,
                          !.stale_ops = @ + (IF run.n_clogin_finish > 0 THEN 1 ELSE 0),
                          !.released = @ \cup ClientLoginFinishReleased(clogin.s)]
    /\ UNCHANGED <<call, sessions, ser, server_kp, rngVars, regVars, slogin, l1, l2, sstart, sres>>

LoginServerFinish ==
    /\ slogin.exists /\ l3.exists
    /\ run.n_sfinish < MaxServerFinish
    /\ LET m == LoginThirdMessageTryFrom(LoginThirdMessageToBytes(l3.m))
       IN /\ m.ok
          /\ LET out == ServerLoginFinish(slogin.s, m.val)
             IN /\ sres' = out
                /\ run' = [run EXCEPT !.l3_in = l3,
                                      !.n_sfinish = @ + 1,
                                      !.n_saccept = @ + (IF out.ok THEN 1 ELSE 0)]
    /\ slogin' = AfterServerLoginFinish(slogin.s)
    /\ UNCHANGED <<call, sessions, ser, server_kp, rngVars, regVars, clogin, l1, l2, l3, cres, sstart>>

L1Parts == {"alpha", "client_nonce"}
L2Parts == {"beta", "server_nonce", "server_e_pk", "mac"}

FlipL1(part) ==
    /\ l1.exists /\ run.tamper = "none" /\ ~sstart.called
    /\ l1' = InFlight(
         CASE part = "alpha" -> [l1.m EXCEPT !.alpha = FlipBit(@)]
           [] part = "client_nonce" ->
                [l1.m EXCEPT !.ke1_message.client_nonce = FlipBit(@)])
    /\ run' = [run EXCEPT !.tamper = part]
    /\ UNCHANGED <<call, sessions, ser, server_kp, rngVars, regVars, clogin, slogin, l2, l3,
                   cres, sstart, sres>>

FlipL2(part) ==
    /\ l2.exists /\ run.tamper = "none" /\ ~cres.called
    /\ l2' = InFlight(
         CASE part = "beta" -> [l2.m EXCEPT !.beta = FlipBit(@)]
           [] part = "server_nonce" ->
                [l2.m EXCEPT !.ke2_message.server_nonce = FlipBit(@)]
           [] part = "server_e_pk" ->
                [l2.m EXCEPT !.ke2_message.server_e_pk = FlipBit(@)]
           [] part = "mac" -> [l2.m EXCEPT !.ke2_message.mac = FlipSym(@)])
    /\ run' = [run EXCEPT !.tamper = part]
    /\ UNCHANGED <<call, sessions, ser, server_kp, rngVars, regVars, clogin, slogin, l1, l3,
                   cres, sstart, sres>>

FlipL2Envelope(part) ==
    /\ l2.exists /\ run.tamper = "none" /\ ~cres.called
    /\ l2' = InFlight([l2.m EXCEPT !.envelope = FlipEnvelope(@, part)])
    /\ run' = [run EXCEPT !.tamper = part]
    /\ UNCHANGED <<call, sessions, ser, server_kp, rngVars, regVars, clogin, slogin, l1, l3,
                   cres, sstart, sres>>

\* a MAC made without any key of the session
BogusMac == Hmac(AkeKey(<<1, 1, 1>>, <<0, 0>>, "km3"), Hash(<<>>))

\* the network sends a third message of its own making
InjectL3 ==
    /\ slogin.exists /\ ~l3.exists /\ run.tamper = "none"
    /\ l3' = InFlight([ke3_message |-> [mac |-> BogusMac]])
    /\ run' = [run EXCEPT !.tamper = "injected"]
    /\ UNCHANGED <<call, sessions, ser, server_kp, rngVars, regVars, clogin, slogin, l1, l2,
                   cres, sstart, sres>>

FlipL3 ==
    /\ l3.exists /\ run.tamper = "none"
    /\ l3' = InFlight([l3.m EXCEPT !.ke3_message.mac = FlipSym(@)])
    /\ run' = [run EXCEPT !.tamper = "ke3_mac"]
    /\ UNCHANGED <<call, sessions, ser, server_kp, rngVars, regVars, clogin, slogin, l1, l2,
                   cres, sstart, sres>>

\* a scalar the network drew for itself: none of the parties' draws
AttackerSk == GroupOrder - 1

\* the network puts an ephemeral key of its own in the place of client_e_pk
ReplaceL1Key ==
    /\ l1.exists /\ run.tamper = "none" /\ ~sstart.called
    /\ l1' = InFlight([l1.m EXCEPT
                        !.ke1_message.client_e_pk = generate_random(AttackerSk).pk])
    /\ run' = [run EXCEPT !.tamper = "client_e_pk"]
    /\ UNCHANGED <<call, sessions, ser, server_kp, rngVars, regVars, clogin, slogin, l2, l3,
                   cres, sstart, sres>>

\* the MAC of a third message as the network can compute it: the two
\* messages it saw on the wire, the server's public key and its own scalar in
\* the place of both of the client's secret keys
AttackerL3Mac(l1m, l2m, server_s_pk) ==
    LET keys == derive_3dh_keys(Pow(l2m.ke2_message.server_e_pk, AttackerSk),
                                Pow(server_s_pk, AttackerSk),
                                Pow(l2m.ke2_message.server_e_pk, AttackerSk),
                                l1m.ke1_message.client_nonce,
                                l2m.ke2_message.server_nonce)
        hashed_transcript ==
            Hash(<<Hash(LoginFirstMessageToBytes(l1m)), ClientL2Bytes(l2m),
                   l2m.ke2_message.server_nonce, l2m.ke2_message.server_e_pk>>)
    IN Hmac(keys.km3, hashed_transcript)

\* the network sends a third message with the MAC it computed
ForgeL3 ==
    /\ slogin.exists /\ l1.exists /\ l2.exists
    /\ run.tamper \in {"none", "client_e_pk"}
    /\ l3' = InFlight([ke3_message |->
                        [mac |-> AttackerL3Mac(l1.m, l2.m, server_kp.pk)]])
    /\ run' = [run EXCEPT !.tamper = "forged_l3"]
    /\ UNCHANGED <<call, sessions, ser, server_kp, rngVars, regVars, clogin, slogin, l1, l2,
                   cres, sstart, sres>>

Next ==
    \/ \E password \in Passwords, pepper \in Peppers :
         RegClientStart(password, pepper)
    \/ RegServerStart
    \/ RegClientFinish
    \/ RegClientToBytes
    \/ RegServerFinish
    \/ ServerRegistrationReload
    \/ \E sk \in RngScalars : ForgeR3(sk)
    \/ \E part \in EnvelopeParts : FlipStoredEnvelope(part)
    \/ \E password \in Passwords, pepper \in Peppers :
         LoginClientStart(password, pepper)
    \/ LoginClientToBytes
    \/ LoginServerStart
    \/ \E server_s_pk \in {server_kp.pk, OtherServerPk} :
         LoginClientFinish(server_s_pk)
    \/ LoginServerFinish
    \/ \E part \in L1Parts : FlipL1(part)
    \/ \E part \in L2Parts : FlipL2(part)
    \/ \E part \in EnvelopeParts : FlipL2Envelope(part)
    \/ InjectL3
    \/ FlipL3

Spec == Init /\ [][Next]_vars

\* the same run over a network that also makes keys of its own: it registers
\* its key in the place of the client's, replaces the client's ephemeral key
\* and computes a third message from what it saw and what it drew
AttackNext ==
    \/ \E password \in Passwords, pepper \in Peppers :
         RegClientStart(password, pepper)
    \/ RegServerStart
    \/ RegClientFinish
    \/ RegServerFinish
    \/ ForgeR3(AttackerSk)
    \/ \E part \in EnvelopeParts : FlipStoredEnvelope(part)
    \/ \E password \in Passwords, pepper \in Peppers :
         LoginClientStart(password, pepper)
    \/ LoginServerStart
    \/ \E server_s_pk \in {server_kp.pk, OtherServerPk} :
         LoginClientFinish(server_s_pk)
    \/ LoginServerFinish
    \/ \E part \in L1Parts : FlipL1(part)
    \/ \E part \in L2Parts : FlipL2(part)
    \/ \E part \in EnvelopeParts : FlipL2Envelope(part)
    \/ InjectL3
    \/ FlipL3
    \/ ReplaceL1Key
    \/ ForgeL3

AttackSpec == Init /\ [][AttackNext]_vars

-----------------------------------------------------------------------------
(* The lifetimes of the client's states: the operations of the protocol    *)
(* with the second login message altered or not, and the client dropping   *)
(* a state, or serializing it and restoring it, at any point               *)

LifetimeNext ==
    \/ \E password \in Passwords, pepper \in Peppers :
         RegClientStart(password, pepper)
    \/ RegServerStart
    \/ RegClientFinish
    \/ RegClientDrop
    \/ RegServerFinish
    \/ \E password \in Passwords, pepper \in Peppers :
         LoginClientStart(password, pepper)
    \/ LoginClientDrop
    \/ LoginClientPauseResume
    \/ LoginServerStart
    \/ \E server_s_pk \in {server_kp.pk, OtherServerPk} :
         LoginClientFinish(server_s_pk)
    \/ LoginServerFinish
    \/ \E part \in L2Parts : FlipL2(part)
    \/ \E part \in EnvelopeParts : FlipL2Envelope(part)

LifetimeSpec == Init /\ [][LifetimeNext]_vars

-----------------------------------------------------------------------------
(* Deserialization on its own: any byte string is handed to try_from, the  *)
(* value it yields is serialized with to_bytes and parsed again            *)

MessageTypes ==
    {"RegisterFirstMessage", "RegisterSecondMessage", "RegisterThirdMessage",
     "LoginFirstMessage", "LoginSecondMessage", "LoginThirdMessage"}

SerTypes == MessageTypes \cup {"ServerRegistration"}

\* the identity, a point of the subgroup, a point outside of it
WireBytes == {1, 2, 5}

\* the fixed wire length of a message type
WireLen(type) ==
    CASE type = "RegisterFirstMessage" -> ElemLen
      [] type = "RegisterSecondMessage" -> ElemLen
      [] type = "RegisterThirdMessage" -> RkrSize + KeyLen
      [] type = "LoginFirstMessage" -> ElemLen + KE1_MESSAGE_LEN
      [] type = "LoginSecondMessage" -> ElemLen + RkrSize + KE2_MESSAGE_LEN
      [] type = "LoginThirdMessage" -> KE3_MESSAGE_LEN
      [] type = "ServerRegistration" -> ScalarLen + KeyLen + RkrSize

SerInputs(type) ==
    UNION {[1..n -> WireBytes] : n \in 0..(WireLen(type) + MaxExtra)}

TryFromOf(type, bytes) ==
    CASE type = "RegisterFirstMessage" -> RegisterFirstMessageTryFrom(bytes)
      [] type = "RegisterSecondMessage" -> RegisterSecondMessageTryFrom(bytes)
      [] type = "RegisterThirdMessage" -> RegisterThirdMessageTryFrom(bytes)
      [] type = "LoginFirstMessage" -> LoginFirstMessageTryFrom(bytes)
      [] type = "LoginSecondMessage" -> LoginSecondMessageTryFrom(bytes)
      [] type = "LoginThirdMessage" -> LoginThirdMessageTryFrom(bytes)
      [] type = "ServerRegistration" -> ServerRegistrationTryFrom(bytes)

ToBytesOf(type, value) ==
    CASE type = "RegisterFirstMessage" -> RegisterFirstMessageToBytes(value)
      [] type = "RegisterSecondMessage" -> RegisterSecondMessageToBytes(value)
      [] type = "RegisterThirdMessage" -> RegisterThirdMessageToBytes(value)
      [] type = "LoginFirstMessage" -> LoginFirstMessageToBytes(value)
      [] type = "LoginSecondMessage" -> LoginSecondMessageToBytes(value)
      [] type = "LoginThirdMessage" -> LoginThirdMessageToBytes(value)
      [] type = "ServerRegistration" -> ServerRegistrationToBytes(value)

SerInit ==
    /\ server_kp = generate_random(1)
    /\ client_rng = 0 /\ server_rng = 0
    /\ creg = NoState /\ sreg = NoState
    /\ r1 = NoMsg /\ r2 = NoMsg /\ r3 = NoMsg
    /\ reg_out = NoResult
    /\ clogin = NoState /\ slogin = NoState
    /\ l1 = NoMsg /\ l2 = NoMsg /\ l3 = NoMsg
    /\ cres = NoResult /\ sstart = NoResult /\ sres = NoResult
    /\ run = [n_logins |-> 0, released |-> {}]
    /\ sessions = NoSessions
    /\ call = NoCall
    /\ \E type \in SerTypes : \E bytes \in SerInputs(type) :
         ser = [type |-> type, bytes |-> bytes, out |-> NoResult,
                back |-> NoMsg, again |-> NoResult, rec |-> NoState]

serFrame ==
    <<server_kp, rngVars, regVars, loginVars, run, sessions, call>>

\* try_from on the byte string
SerTryFrom ==
    /\ ~ser.out.called
    /\ ser' = [ser EXCEPT !.out = TryFromOf(ser.type, ser.bytes)]
    /\ UNCHANGED serFrame

\* to_bytes on the value try_from returned
SerToBytes ==
    /\ ser.out.called /\ ser.out.ok /\ ~ser.back.exists
    /\ ser' = [ser EXCEPT !.back = InFlight(ToBytesOf(ser.type, ser.out.val))]
    /\ UNCHANGED serFrame

\* try_from on the bytes to_bytes returned
SerTryFromAgain ==
    /\ ser.back.exists /\ ~ser.again.called
    /\ ser' = [ser EXCEPT !.again = TryFromOf(ser.type, ser.back.m)]
    /\ UNCHANGED serFrame

\* a record straight from ServerRegistration::start
PendingRecord == ServerRegistrationStart([alpha |-> Generator], 1).val.state

\* ServerRegistration::finish with the third registration message try_from
\* returned, on a pending record
SerFinish ==
    /\ ser.type = "RegisterThirdMessage"
    /\ ser.out.called /\ ser.out.ok /\ ~ser.rec.exists
    /\ LET out == ServerRegistrationFinish(PendingRecord, ser.out.val)
       IN /\ out.ok
          /\ ser' = [ser EXCEPT !.rec = Held(out.val)]
    /\ UNCHANGED serFrame

SerNext == SerTryFrom \/ SerToBytes \/ SerTryFromAgain \/ SerFinish

SerSpec == SerInit /\ [][SerNext]_vars

-----------------------------------------------------------------------------
(* Login sessions side by side: each session has its ClientLogin, its       *)
(* ServerLogin, its messages and its caller-owned RNGs; the password file   *)
(* and the server's static key are the same for all.                        *)

ConcServerKp == generate_random(1)
ConcPassword == <<1>>

\* the password file of an honest registration of ConcPassword
ConcFile ==
    LET c1 == ClientRegistrationStart(ConcPassword, NoPepper, 1)
        s1 == ServerRegistrationStart(c1.msg, 2).val
        c2 == ClientRegistrationFinish(c1.state, s1.msg, ConcServerKp.pk, 2, 0).val
    IN ServerRegistrationFinish(s1.state, c2.message).val

ConcInit ==
    /\ server_kp = ConcServerKp
    /\ client_rng = 0 /\ server_rng = 0
    /\ creg = NoState /\ sreg = Held(ConcFile)
    /\ r1 = NoMsg /\ r2 = NoMsg /\ r3 = NoMsg
    /\ reg_out = NoResult
    /\ clogin = NoState /\ slogin = NoState
    /\ l1 = NoMsg /\ l2 = NoMsg /\ l3 = NoMsg
    /\ cres = NoResult /\ sstart = NoResult /\ sres = NoResult
    /\ run = [n_logins |-> 0, released |-> {}]
    /\ ser = NoSer
    /\ sessions = NoSessions
    /\ call = NoCall

concFrame ==
    <<server_kp, rngVars, regVars, loginVars, run, ser, call>>

\* ClientLogin::start of session i, with an RNG of its own
ConcClientStart(i, password, pepper, rng) ==
    /\ ~sessions[i].exists
    /\ LET out == ClientLoginStart(password, pepper, RandomScalar(rng),
                                   RandomScalar(rng + 1), RandomNonce(rng + 2))
       IN sessions' = [sessions EXCEPT ![i] =
            [exists |-> TRUE,
             password |-> password, pepper |-> pepper,
             client_rng |-> rng, server_rng |-> 0, server_s_pk |-> 0,
             clogin |-> Held(out.state), slogin |-> NoState,
             l1 |-> InFlight(out.msg), l2 |-> NoMsg, l3 |-> NoMsg,
             cres |-> NoResult, sstart |-> NoResult, sres |-> NoResult]]
    /\ UNCHANGED concFrame

\* the server keeps one ServerLogin for all sessions
ConcServerStartOneSlot(i, rng) ==
    /\ sessions[i].exists /\ ~sessions[i].sstart.called
    /\ LET m == LoginFirstMessageTryFrom(LoginFirstMessageToBytes(sessions[i].l1.m))
           out == ServerLoginStart(sreg.s, server_kp.sk, m.val,
                                   RandomScalar(rng), RandomNonce(rng + 1))
       IN /\ m.ok
          /\ sessions' = [j \in Sessions |->
               IF ~sessions[j].exists THEN sessions[j]
               ELSE IF j = i
               THEN [sessions[j] EXCEPT
                       !.server_rng = rng,
                       !.sstart = IF out.ok THEN Ok(<<>>) ELSE out,
                       !.slogin = IF out.ok THEN Held(out.val.state) ELSE NoState,
                       !.l2 = IF out.ok THEN InFlight(out.val.msg) ELSE NoMsg]
               ELSE [sessions[j] EXCEPT
                       !.slogin = IF out.ok /\ @.exists THEN Held(out.val.state) ELSE @]]
    /\ UNCHANGED concFrame

\* ServerLogin::start of session i on the shared password file, with an RNG
\* of its own
ConcServerStart(i, rng) ==
    /\ sessions[i].exists /\ ~sessions[i].sstart.called
    /\ LET m == LoginFirstMessageTryFrom(LoginFirstMessageToBytes(sessions[i].l1.m))
           out == ServerLoginStart(sreg.s, server_kp.sk, m.val,
                                   RandomScalar(rng), RandomNonce(rng + 1))
       IN /\ m.ok
          /\ sessions' = [sessions EXCEPT
               ![i].server_rng = rng,
               ![i].sstart = IF out.ok THEN Ok(<<>>) ELSE out,
               ![i].slogin = IF out.ok THEN Held(out.val.state) ELSE NoState,
               ![i].l2 = IF out.ok THEN InFlight(out.val.msg) ELSE NoMsg]
    /\ UNCHANGED concFrame

\* ClientLogin::finish of session i
ConcClientFinish(i, server_s_pk) ==
    /\ sessions[i].exists
    /\ sessions[i].clogin.exists /\ sessions[i].l2.exists
    /\ LET m == LoginSecondMessageTryFrom(LoginSecondMessageToBytes(sessions[i].l2.m))
           out == ClientLoginFinish(sessions[i].clogin.s, m.val, server_s_pk)
       IN /\ m.ok
          /\ sessions' = [sessions EXCEPT
               ![i].server_s_pk = server_s_pk,
               ![i].cres = out,
               ![i].l3 = IF out.ok THEN InFlight(out.val.message) ELSE @,
               ![i].clogin = AfterClientLoginFinish(@.s)]
    /\ UNCHANGED concFrame

\* ServerLogin::finish of session i
ConcServerFinish(i) ==
    /\ sessions[i].exists
    /\ sessions[i].slogin.exists /\ sessions[i].l3.exists /\ ~sessions[i].sres.called
    /\ LET m == LoginThirdMessageTryFrom(LoginThirdMessageToBytes(sessions[i].l3.m))
           out == ServerLoginFinish(sessions[i].slogin.s, m.val)
       IN /\ m.ok
          /\ sessions' = [sessions EXCEPT
               ![i].sres = out,
               ![i].slogin = AfterServerLoginFinish(@.s)]
    /\ UNCHANGED concFrame

ConcNext ==
    \/ \E i \in Sessions, password \in Passwords, pepper \in Peppers, rng \in RngSeeds :
         ConcClientStart(i, password, pepper, rng)
    \/ \E i \in Sessions, rng \in RngSeeds : ConcServerStart(i, rng)
    \/ \E i \in Sessions, server_s_pk \in {server_kp.pk, OtherServerPk} :
         ConcClientFinish(i, server_s_pk)
    \/ \E i \in Sessions : ConcServerFinish(i)

ConcSpec == ConcInit /\ [][ConcNext]_vars


-----------------------------------------------------------------------------
(* Single calls: an operation is applied to inputs drawn from small sets   *)

\* ClientRegistration::start and ClientLogin::start on a password, a pepper
\* and a blinding scalar; `other` is a second password to compare with
StartCalls ==
    [fn : {"start"},
     in : [password : Passwords, other : Passwords, pepper : Peppers, r : Scalars],
     out : {NoResult}]

\* a few elements of the group
SomeElements == {Pow(Generator, e) : e \in 1..3}

\* two calls of ServerRegistration::start, one after the other, with the same
\* RNG; the caller may draw from the RNG in between
ServerStartCalls ==
    [fn : {"server_registration_start"},
     in : [alphas : SomeElements \X SomeElements, rng : RngSeeds],
     out : {NoResult}]

\* where the calls of ServerRegistration::start stand: the position of the
\* RNG and the records made
ServerStartProgress ==
    IF call.out.called THEN call.out.val
    ELSE [rng |-> call.in.rng, records |-> <<>>]

\* the bytes a digest is made of in the calls of the slow hash
DigestByteValues == {0, 1, 255}

\* NoOpHash::hash, twice, on a digest
SlowHashCalls ==
    [fn : {"slow_hash"},
     in : UNION {[1..n -> DigestByteValues] : n \in 1..3},
     out : {NoResult},
     again : {NoResult}]

PureCalls == StartCalls \cup ServerStartCalls \cup SlowHashCalls

PureInit ==
    /\ server_kp = ConcServerKp
    /\ client_rng = 0 /\ server_rng = 0
    /\ creg = NoState /\ sreg = NoState
    /\ r1 = NoMsg /\ r2 = NoMsg /\ r3 = NoMsg
    /\ reg_out = NoResult
    /\ clogin = NoState /\ slogin = NoState
    /\ l1 = NoMsg /\ l2 = NoMsg /\ l3 = NoMsg
    /\ cres = NoResult /\ sstart = NoResult /\ sres = NoResult
    /\ run = [n_logins |-> 0, released |-> {}]
    /\ ser = NoSer
    /\ sessions = NoSessions
    /\ call \in PureCalls

pureFrame ==
    <<server_kp, rngVars, regVars, loginVars, run, ser, sessions>>

\* the client's two first messages, as they go on the wire
CallStart ==
    /\ call.fn = "start" /\ ~call.out.called
    /\ LET reg == ClientRegistrationStart(call.in.password, call.in.pepper, call.in.r)
           login == ClientLoginStart(call.in.password, call.in.pepper, call.in.r, 1, 0)
       IN call' = [call EXCEPT !.out =
            Ok([r1 |-> RegisterFirstMessageToBytes(reg.msg),
                l1 |-> LoginFirstMessageToBytes(login.msg)])]
    /\ UNCHANGED pureFrame

\* ServerRegistration::start on the next alpha: one draw of the RNG
CallServerRegistrationStart ==
    /\ call.fn = "server_registration_start"
    /\ Len(ServerStartProgress.records) < 2
    /\ LET now == ServerStartProgress
           alpha == call.in.alphas[Len(now.records) + 1]
           out == ServerRegistrationStart([alpha |-> alpha], RandomScalar(now.rng))
       IN /\ out.ok
          /\ call' = [call EXCEPT !.out =
               Ok([rng |-> now.rng + 1,
                   records |-> Append(now.records,
                                      [alpha |-> alpha, drawn_at |-> now.rng,
                                       state |-> out.val.state])])]
    /\ UNCHANGED pureFrame

\* the caller draws a scalar from the same RNG for something else
CallRngDraw ==
    /\ call.fn = "server_registration_start"
    /\ ServerStartProgress.rng < call.in.rng + MaxScalar + 1
    /\ call' = [call EXCEPT !.out = Ok([ServerStartProgress EXCEPT !.rng = @ + 1])]
    /\ UNCHANGED pureFrame

\* NoOpHash::hash on the digest
CallNoOpHash ==
    /\ call.fn = "slow_hash" /\ ~call.out.called
    /\ call' = [call EXCEPT !.out = NoOpHash(call.in)]
    /\ UNCHANGED pureFrame

\* NoOpHash::hash on the same digest once more
CallNoOpHashAgain ==
    /\ call.fn = "slow_hash" /\ call.out.called /\ ~call.again.called
    /\ call' = [call EXCEPT !.again = NoOpHash(call.in)]
    /\ UNCHANGED pureFrame

PureNext ==
    \/ CallStart
    \/ CallServerRegistrationStart
    \/ CallRngDraw
    \/ CallNoOpHash
    \/ CallNoOpHashAgain

PureSpec == PureInit /\ [][PureNext]_vars


-----------------------------------------------------------------------------
(* Properties *)

Registered == reg_out.called /\ reg_out.ok

\* the record is what the honest registration produced
HonestFile(record) ==
    /\ Registered
    /\ IsComplete(record)
    /\ record.envelope.v = reg_out.val.message.envelope
    /\ record.client_s_pk.v = reg_out.val.message.client_s_pk

SamePassword ==
    run.n_logins > 0 /\ run.login_pw = run.reg_pw /\ run.login_pepper = run.reg_pepper

\* the login in progress runs against the honest password file, with the
\* registered password and pepper, and nothing was altered on its way
HonestLogin ==
    /\ SamePassword
    /\ run.file_in.exists /\ HonestFile(run.file_in.s)
    /\ run.tamper = "none"
    /\ cres.called => run.login_spk = server_kp.pk

\* C1: a login with the registered password and pepper against the honest
\* password file, with the server's own public key and all messages delivered
\* unmodified, succeeds on both sides, and both sides hold the same session key.
C1_LoginSucceedsWithSameKey ==
    HonestLogin =>
        /\ cres.called => cres.ok
        /\ sres.called => /\ sres.ok
                          /\ cres.called /\ cres.ok
                          /\ sres.val = cres.val.session_key

C1_Witness ==
    /\ HonestLogin
    /\ cres.called /\ cres.ok
    /\ sres.called /\ sres.ok
    /\ sres.val = cres.val.session_key

\* C2: the export key of a successful login with the registered password and
\* pepper is the export key ClientRegistration::finish returned.
C2_ExportKeyStable ==
    (SamePassword /\ cres.called /\ cres.ok) =>
        /\ Registered
        /\ cres.val.export_key = reg_out.val.export_key

C2_Witness ==
    /\ SamePassword /\ cres.called /\ cres.ok
    /\ cres.val.export_key = reg_out.val.export_key

EnvelopeAltered ==
    /\ Registered
    /\ cres.called
    /\ run.l2_in.m.envelope # reg_out.val.message.envelope

\* C4: given an envelope that differs from the registered one, ClientLogin::finish
\* with the registered password returns InvalidLogin, not DecryptionHmacError,
\* and no session key, export key or third message.
C4_AlteredEnvelopeInvalidLogin ==
    (SamePassword /\ EnvelopeAltered) =>
        (~cres.ok /\ cres.err = "InvalidLoginError")

C4_Witness ==
    /\ SamePassword /\ EnvelopeAltered
    /\ run.login_spk = server_kp.pk
    /\ run.tamper \in EnvelopeParts /\ ~run.file_flipped /\ ~run.r3_forged
    /\ ~cres.ok /\ cres.err = "InvalidLoginError"

\* C5: every error ClientLogin::finish returns is InvalidLogin, also when one
\* bit of the second message (its envelope or its ke2_message) was flipped.
C5_ClientErrorsAreInvalidLogin ==
    (/\ cres.called /\ ~cres.ok
     /\ ~run.r3_forged
     /\ run.tamper \in {"none"} \cup EnvelopeParts \cup (L2Parts \ {"beta"}))
        => cres.err = "InvalidLoginError"

\* the third message ServerLogin::finish was given fails the MAC check
Ke3MacFails ==
    /\ sres.called
    /\ ~finish_ke(run.l3_in.m.ke3_message, slogin.s.ke2_state).ok

\* C6: when the third message fails the MAC check, ServerLogin::finish returns
\* InvalidLogin, not KeyExchangeMacValidationError, and no session key.
C6_BadKe3InvalidLogin ==
    /\ Ke3MacFails => (~sres.ok /\ sres.err = "InvalidLoginError")
    /\ (sres.called /\ run.l3_in.m.ke3_message.mac.x # 0) => Ke3MacFails

C6_Witness ==
    /\ Ke3MacFails
    /\ run.tamper = "ke3_mac"
    /\ cres.called /\ cres.ok
    /\ ~sres.ok /\ sres.err = "InvalidLoginError"

\* C7: ServerLogin::start on a pending record fails with InvalidLogin and
\* yields neither a second message nor a ServerLogin.
C7_PendingRecordInvalidLogin ==
    (sstart.called /\ IsPending(run.file_in.s)) =>
        /\ ~sstart.ok /\ sstart.err = "InvalidLoginError"
        /\ ~slogin.exists /\ ~l2.exists

\* C8: a ServerLogin is consumed by its first finish, so one ServerLogin never
\* yields a second accepted login, also when the third message is replayed.
C8_ServerLoginSingleShot ==
    run.n_saccept <= 1

\* C9: a ClientRegistration and a ClientLogin are gone after one finish,
\* whatever it returned: no second finish and no to_bytes is performed on them.
C9_ClientStatesSingleUse ==
    /\ run.n_creg_finish <= 1 /\ run.n_clogin_finish <= 1
    /\ run.n_creg_finish > 0 => ~creg.exists
    /\ run.n_clogin_finish > 0 => ~clogin.exists
    /\ reg_out.called <=> run.n_creg_finish > 0
    /\ cres.called <=> run.n_clogin_finish > 0
    /\ run.stale_ops = 0

C9_Witness ==
    /\ Registered /\ ~creg.exists
    /\ cres.called /\ ~cres.ok /\ ~clogin.exists

\* what ServerRegistration::finish makes of the record and the message in flight
FinishedRecord ==
    ServerRegistrationFinish(sreg.s, RegisterThirdMessageTryFrom(RegisterThirdMessageToBytes(r3.m)).val)

C10_Start == (~sreg.exists /\ sreg'.exists) => IsPending(sreg'.s)

C10_Finish ==
    (sreg.exists /\ sreg' # sreg /\ run'.file_flipped = run.file_flipped) =>
        /\ r3.exists
        /\ sreg'.exists
        /\ sreg'.s = [envelope |-> Some(r3.m.envelope),
                      client_s_pk |-> Some(r3.m.client_s_pk),
                      oprf_key |-> sreg.s.oprf_key]

C10_Monotone ==
    (sreg.exists /\ IsComplete(sreg.s)) => (sreg'.exists /\ IsComplete(sreg'.s))

\* C10: ServerRegistration::start yields a pending record; finish yields a
\* complete record with the record's oprf_key and the message's envelope and
\* client_s_pk, from a pending and from a complete record alike; a complete
\* record never becomes pending again.
C10_PendingToComplete ==
    /\ [](sreg.exists => (IsPending(sreg.s) \/ IsComplete(sreg.s)))
    /\ []((sreg.exists /\ r3.exists /\ RegisterThirdMessageTryFrom(RegisterThirdMessageToBytes(r3.m)).ok) =>
            /\ FinishedRecord.ok
            /\ IsComplete(FinishedRecord.val)
            /\ FinishedRecord.val.oprf_key = sreg.s.oprf_key
            /\ FinishedRecord.val.envelope = Some(r3.m.envelope)
            /\ FinishedRecord.val.client_s_pk = Some(r3.m.client_s_pk))
    /\ [][C10_Start /\ C10_Finish /\ C10_Monotone]_vars

\* finish was applied to a complete record: the stored envelope had been
\* altered, and is the message's envelope again
C10_Witness ==
    /\ Registered /\ sreg.exists /\ IsComplete(sreg.s)
    /\ run.file_flipped
    /\ sreg.s.envelope.v = reg_out.val.message.envelope

\* the byte string handed to try_from has the wire length of its type
SerRightLength == Len(ser.bytes) = WireLen(ser.type)

\* the record deserialization or finish produced, if any
SerRecords ==
    (IF ser.type = "ServerRegistration" /\ ser.out.called /\ ser.out.ok
     THEN {ser.out.val} ELSE {})
    \cup (IF ser.rec.exists THEN {ser.rec.s} ELSE {})

\* the client_s_pk bytes in a serialized third registration message
SerThirdMessageKey == ser.bytes[RkrSize + 1]

\* C11: a third registration message whose client_s_pk fails check_public_key
\* is rejected with InvalidPublicKey and never reaches ServerRegistration::finish;
\* every complete ServerRegistration, from finish or from deserialization, holds
\* a client_s_pk that passes check_public_key.
C11_CompleteRecordHasCheckedKey ==
    /\ \A record \in SerRecords :
         IsComplete(record) => check_public_key(record.client_s_pk.v).ok
    /\ (/\ ser.type = "RegisterThirdMessage" /\ SerRightLength
        /\ ~check_public_key(SerThirdMessageKey).ok
        /\ ser.out.called)
         => (ser.out = Err("InvalidPublicKey") /\ ~ser.rec.exists)

C11_Witness ==
    /\ ser.type = "RegisterThirdMessage" /\ SerRightLength
    /\ SerThirdMessageKey = 5
    /\ ser.out = Err("InvalidPublicKey")

\* C12: for each of the six message types, try_from on a byte string whose
\* length is not the type's wire length returns SerializationError: it never
\* succeeds and never panics.
C12_WrongLengthSerializationError ==
    (/\ ser.type \in MessageTypes
     /\ ~SerRightLength
     /\ ser.out.called)
        => ser.out = Err("SerializationError")

\* C13: for every value try_from yields, try_from of its to_bytes succeeds and
\* yields a value with the same to_bytes; a ServerRegistration is restored equal
\* and in the same form: a pending record from ScalarLen bytes as pending, a
\* complete record from oprf_key || client_s_pk || envelope as complete.
C13_SerializationRoundTrips ==
    /\ ser.again.called =>
         /\ ser.again.ok
         /\ ToBytesOf(ser.type, ser.again.val) = ser.back.m
         /\ ser.again.val = ser.out.val
    /\ (ser.type = "ServerRegistration" /\ ser.back.exists) =>
         LET s == ser.out.val
             b == ser.back.m
         IN /\ IsPending(s) \/ IsComplete(s)
            /\ IsPending(s) => Len(b) = ScalarLen
            /\ IsComplete(s) =>
                 /\ Len(b) = ScalarLen + KeyLen + RkrSize
                 /\ SubSeq(b, 1, ScalarLen) = scalar_as_bytes(s.oprf_key)
                 /\ SubSeq(b, ScalarLen + 1, ScalarLen + KeyLen)
                      = KeyToArr(s.client_s_pk.v)
                 /\ SubSeq(b, ScalarLen + KeyLen + 1, Len(b))
                      = RKRToBytes(s.envelope.v)
            /\ ser.again.called =>
                 /\ IsPending(ser.again.val) <=> IsPending(s)
                 /\ IsComplete(ser.again.val) <=> IsComplete(s)

C13_Witness ==
    /\ ser.type = "ServerRegistration"
    /\ ser.again.called /\ ser.again.ok
    /\ IsComplete(ser.again.val)
    /\ ser.again.val = ser.out.val
    /\ ser.out.val.client_s_pk.v # ser.out.val.envelope.v.nonce

\* the message types that carry a group element or a public key
ElementTypes == MessageTypes \ {"LoginThirdMessage"}

\* the element's bytes in the serialized message
SerElementBytes ==
    IF ser.type = "RegisterThirdMessage" THEN ser.bytes[RkrSize + 1]
    ELSE ser.bytes[1]

\* the element held by the message value try_from returned
SerElementValue ==
    CASE ser.type \in {"RegisterFirstMessage", "LoginFirstMessage"} ->
           ser.out.val.alpha
      [] ser.type \in {"RegisterSecondMessage", "LoginSecondMessage"} ->
           ser.out.val.beta
      [] ser.type = "RegisterThirdMessage" -> ser.out.val.client_s_pk

\* C14: a byte string of the right length whose alpha, beta or client_s_pk is
\* the identity or lies outside the subgroup is rejected by try_from with
\* SerializationError or InvalidPublicKey; every message value a protocol step
\* can be given holds a valid point.
C14_SubgroupEnforced ==
    ser.type \in ElementTypes =>
        /\ (SerRightLength /\ ~IsValidElement(SerElementBytes) /\ ser.out.called)
             => /\ ~ser.out.ok
                /\ ser.out.err \in {"SerializationError", "InvalidPublicKey"}
        /\ (ser.out.called /\ ser.out.ok) => IsValidElement(SerElementValue)

C14_Witness ==
    /\ ser.type = "LoginFirstMessage" /\ SerRightLength
    /\ SerElementBytes = 1
    /\ ser.out = Err("SerializationError")

\* the ClientLogin at hand after to_bytes and try_from
RestoredClientLogin == ClientLoginTryFrom(ClientLoginToBytes(clogin.s))

\* the second login message at hand, as ClientLogin::finish receives it
SecondMessageAtHand == LoginSecondMessageTryFrom(LoginSecondMessageToBytes(l2.m))

\* C15: a ClientLogin restored with try_from from its to_bytes gives, with the
\* same second message and server public key, the result finish gives on the
\* original state: the same third message, session key and export key, or the
\* same error.
C15_PauseResumeEquivalent ==
    (clogin.exists /\ l2.exists /\ SecondMessageAtHand.ok) =>
        /\ RestoredClientLogin.ok
        /\ \A server_s_pk \in {server_kp.pk, OtherServerPk} :
             ClientLoginFinish(RestoredClientLogin.val,
                               SecondMessageAtHand.val, server_s_pk)
               = ClientLoginFinish(clogin.s, SecondMessageAtHand.val, server_s_pk)

C15_Witness ==
    /\ clogin.exists /\ l2.exists /\ SecondMessageAtHand.ok
    /\ RestoredClientLogin.ok
    /\ Len(clogin.s.password) = 2
    /\ ClientLoginFinish(RestoredClientLogin.val,
                         SecondMessageAtHand.val, server_kp.pk).ok

\* C16: length hiding. The serialized RegisterThirdMessage has RkrSize + KeyLen
\* bytes and the complete password file ScalarLen + KeyLen + RkrSize bytes,
\* where RkrSize is the sum of the AEAD nonce, key, AEAD tag and HMAC tag
\* lengths; every message on the wire has the length fixed for its type,
\* whatever the password.
C16_LengthsFixed ==
    /\ RkrSize = NonceLen + KeyLen + TagLen + HmacTagLen
    /\ Registered =>
          /\ Len(RKRToBytes(reg_out.val.message.envelope)) = RkrSize
          /\ Len(RegisterThirdMessageToBytes(reg_out.val.message)) = RkrSize + KeyLen
    /\ (sreg.exists /\ IsComplete(sreg.s)) =>
          Len(ServerRegistrationToBytes(sreg.s)) = ScalarLen + KeyLen + RkrSize
    /\ r1.exists => Len(RegisterFirstMessageToBytes(r1.m)) = WireLen("RegisterFirstMessage")
    /\ r2.exists => Len(RegisterSecondMessageToBytes(r2.m)) = WireLen("RegisterSecondMessage")
    /\ r3.exists => Len(RegisterThirdMessageToBytes(r3.m)) = WireLen("RegisterThirdMessage")
    /\ l1.exists => Len(LoginFirstMessageToBytes(l1.m)) = WireLen("LoginFirstMessage")
    /\ l2.exists => Len(LoginSecondMessageToBytes(l2.m)) = WireLen("LoginSecondMessage")
    /\ l3.exists => Len(LoginThirdMessageToBytes(l3.m)) = WireLen("LoginThirdMessage")

\* a two-byte password was registered and its envelope is on its way back
C16_Witness ==
    /\ Registered /\ Len(run.reg_pw) = 2
    /\ sreg.exists /\ IsComplete(sreg.s)
    /\ l2.exists /\ Len(run.login_pw) = 1

\* the buffers of the two client states that hold the password and the
\* blinding factor
StateSecretBuffers(type) == {type \o ".password", type \o ".blinding_factor"}

ReleasedOf(names) == {b \in run.released : b.buf \in names}

\* the state of this type was created and is no more
CeasedToExist(type) ==
    CASE type = "ClientRegistration" -> r1.exists /\ ~creg.exists
      [] type = "ClientLogin" -> l1.exists /\ ~clogin.exists

\* C17: whenever a ClientRegistration or a ClientLogin has ceased to exist,
\* by finish returning Ok or an error or by being dropped, its password
\* buffer and its blinding factor were released holding zeros only.
C17_ClientStatesZeroized ==
    \A type \in {"ClientRegistration", "ClientLogin"} :
        /\ \A b \in ReleasedOf(StateSecretBuffers(type)) : IsZeroized(b.bytes)
        /\ CeasedToExist(type) =>
              \A name \in StateSecretBuffers(type) : ReleasedOf({name}) # {}

\* the registration finished Ok and the login was dropped without finish
C17_Witness ==
    /\ Registered /\ CeasedToExist("ClientRegistration")
    /\ CeasedToExist("ClientLogin") /\ run.n_clogin_finish = 0
    /\ Len(run.login_pw) = 2

\* the buffers ClientLogin::finish held a secret in
ClientLoginFinishBuffers ==
    StateSecretBuffers("ClientLogin") \cup {"ClientLogin::finish.password_clone"}

\* C18: when ClientLogin.finish has returned, Ok or error, every buffer it
\* held the password or the blinding factor in, the password copy handed to
\* the OPRF finalization included, was released holding zeros only.
C18_FinishLeavesNoSecret ==
    cres.called => \A b \in ReleasedOf(ClientLoginFinishBuffers) : IsZeroized(b.bytes)

\* a call of one of the four login operations
LoginStep ==
    \/ \E password \in Passwords, pepper \in Peppers : LoginClientStart(password, pepper)
    \/ LoginServerStart
    \/ \E server_s_pk \in {server_kp.pk, OtherServerPk} : LoginClientFinish(server_s_pk)
    \/ LoginServerFinish

\* a complete password file appears, or one of its fields changes
FileWritten ==
    /\ sreg'.exists /\ IsComplete(sreg'.s)
    /\ ~sreg.exists \/ sreg'.s # sreg.s

\* C20: no login call, successful or failing, changes the oprf_key, the
\* client_s_pk or the envelope of the stored password file; of the
\* operations of the protocol only ServerRegistration.finish writes a
\* complete file (the other writer is the alteration of the storage itself);
\* and the envelope ServerLogin.start sends in LoginSecondMessage is
\* byte-for-byte the stored one.
C20_PasswordFileReadOnlyInLogin ==
    [][/\ sreg' # sreg => ~LoginStep
       /\ FileWritten => (RegServerFinish \/ \E part \in EnvelopeParts : FlipStoredEnvelope(part))
       /\ (~sstart.called /\ sstart'.called /\ l2'.exists /\ LoginServerStart) =>
             /\ IsComplete(sreg.s)
             /\ RKRToBytes(l2'.m.envelope) = RKRToBytes(sreg.s.envelope.v)
             /\ LoginSecondMessageToBytes(l2'.m)[ElemLen + 1] = sreg.s.envelope.v.nonce]_vars

\* both sides have finished a login against a complete file, the client
\* with an error
C20_Witness ==
    /\ sreg.exists /\ IsComplete(sreg.s) /\ run.file_in = sreg
    /\ l2.exists /\ cres.called /\ ~cres.ok /\ sres.called

\* what a login gives when it runs alone: the four steps one after the other,
\* with the inputs and the random draws of the session
AloneClientResult(s) ==
    LET c1 == ClientLoginStart(s.password, s.pepper, RandomScalar(s.client_rng),
                               RandomScalar(s.client_rng + 1),
                               RandomNonce(s.client_rng + 2))
        s1 == ServerLoginStart(ConcFile, ConcServerKp.sk, c1.msg,
                               RandomScalar(s.server_rng), RandomNonce(s.server_rng + 1))
    IN ClientLoginFinish(c1.state, s1.val.msg, s.server_s_pk)

AloneServerResult(s) ==
    LET c1 == ClientLoginStart(s.password, s.pepper, RandomScalar(s.client_rng),
                               RandomScalar(s.client_rng + 1),
                               RandomNonce(s.client_rng + 2))
        s1 == ServerLoginStart(ConcFile, ConcServerKp.sk, c1.msg,
                               RandomScalar(s.server_rng), RandomNonce(s.server_rng + 1))
        c2 == ClientLoginFinish(c1.state, s1.val.msg, s.server_s_pk)
    IN ServerLoginFinish(s1.val.state, c2.val.message)

SessionAsAlone(s) ==
    /\ s.cres.called => s.cres = AloneClientResult(s)
    /\ s.sres.called => s.sres = AloneServerResult(s)

\* C19: login sessions that share the password file and the server's static
\* key are independent. Whatever the interleaving of their steps, what each
\* session returns (Ok with its session key and export key, or its error) is
\* what it returns when it runs alone, and a step changes the ClientLogin,
\* the ServerLogin and the messages of one session only.
C19_SessionsIndependent ==
    /\ [](\A i \in Sessions : sessions[i].exists => SessionAsAlone(sessions[i]))
    /\ [][\E i \in Sessions : \A j \in Sessions \ {i} : sessions'[j] = sessions[j]]_vars

\* two sessions are under way at the same time, neither finished on the
\* server: one client has its keys, the other was told InvalidLogin
C19_Witness ==
    \E i, j \in Sessions :
        /\ i # j /\ sessions[i].exists /\ sessions[j].exists
        /\ sessions[i].cres.called /\ sessions[i].cres.ok
        /\ sessions[i].slogin.exists /\ ~sessions[i].sres.called
        /\ sessions[j].cres.called /\ ~sessions[j].cres.ok
        /\ sessions[j].cres.err = "InvalidLoginError"
        /\ sessions[j].slogin.exists /\ ~sessions[j].sres.called

\* what the server receives and holds in a registration and a login of this
\* password that nobody disturbs, as far as it can read it: the bytes of the
\* first messages and the fields that are no output of a hash, a MAC or a
\* cipher
ServerPlainView(password, pepper, r) ==
    LET c1 == ClientRegistrationStart(password, pepper, r)
        s1 == ServerRegistrationStart(c1.msg, 2).val
        c2 == ClientRegistrationFinish(c1.state, s1.msg, ConcServerKp.pk, 2, 0).val
        file == ServerRegistrationFinish(s1.state, c2.message).val
        c3 == ClientLoginStart(password, pepper, r, 1, 0)
        s2 == ServerLoginStart(file, ConcServerKp.sk, c3.msg, 1, 1).val
    IN [r1 |-> RegisterFirstMessageToBytes(c1.msg),
        r3_client_s_pk |-> c2.message.client_s_pk,
        r3_nonce |-> c2.message.envelope.nonce,
        l1 |-> LoginFirstMessageToBytes(c3.msg),
        file_oprf_key |-> file.oprf_key,
        file_client_s_pk |-> file.client_s_pk.v,
        file_nonce |-> file.envelope.v.nonce,
        slogin_km3 |-> s2.state.ke2_state.km3,
        slogin_shared_secret |-> s2.state.ke2_state.shared_secret]

\* C21: the server never observes the password. The password reaches the
\* wire only inside the blinded alpha: for any two passwords and any
\* blinding scalar of the first there is a blinding scalar of the second
\* under which the first messages of registration and login are the same
\* bytes, and so is everything else the server can read in the client's
\* messages and in its own ServerRegistration and ServerLogin.
C21_ServerNeverSeesPassword ==
    (call.fn = "start" /\ call.out.called) =>
        \E other_r \in Scalars :
            /\ RegisterFirstMessageToBytes(ClientRegistrationStart(call.in.other, call.in.pepper, other_r).msg) = call.out.val.r1
            /\ LoginFirstMessageToBytes(ClientLoginStart(call.in.other, call.in.pepper, other_r, 1, 0).msg) = call.out.val.l1
            /\ ServerPlainView(call.in.other, call.in.pepper, other_r) = ServerPlainView(call.in.password, call.in.pepper, call.in.r)
            /\ ServerPlainView(call.in.password, call.in.pepper, call.in.r).r1 = call.out.val.r1

\* the first messages of one password are out, and the other password is a
\* different one, which the same blinding scalar does not map to them
C21_Witness ==
    /\ call.fn = "start" /\ call.out.called
    /\ call.in.password # call.in.other
    /\ RegisterFirstMessageToBytes(ClientRegistrationStart(call.in.other, call.in.pepper, call.in.r).msg) # call.out.val.r1

\* C22: the OPRF key is fresh for every registration. Every call of
\* ServerRegistration.start takes one new draw of the caller's RNG as its
\* oprf_key, whatever the message and whatever was registered before: two
\* registrations, of the same alpha too, have the same oprf_key only when
\* the RNG gave the same scalar twice.
C22_OprfKeyFreshPerRegistration ==
    call.fn = "server_registration_start" =>
        LET records == ServerStartProgress.records
        IN /\ \A i \in 1..Len(records) :
                /\ records[i].state.oprf_key = RandomScalar(records[i].drawn_at)
                /\ records[i].drawn_at < ServerStartProgress.rng
           /\ \A i, j \in 1..Len(records) :
                i < j =>
                    /\ records[i].drawn_at < records[j].drawn_at
                    /\ records[j].drawn_at - records[i].drawn_at < MaxScalar
                          => records[i].state.oprf_key # records[j].state.oprf_key
                    /\ records[i].state.oprf_key = records[j].state.oprf_key
                          => RandomScalar(records[i].drawn_at) = RandomScalar(records[j].drawn_at)

\* two registrations of the same alpha, with different keys
C22_Witness ==
    /\ call.fn = "server_registration_start"
    /\ Len(ServerStartProgress.records) = 2
    /\ ServerStartProgress.records[1].alpha = ServerStartProgress.records[2].alpha
    /\ ServerStartProgress.records[1].state.oprf_key # ServerStartProgress.records[2].state.oprf_key

\* C23: the envelope is bound to the server's static public key. The
\* envelope is sealed by ClientRegistration.finish with the server's key as
\* associated data; when ClientLogin.finish is called with another
\* server_s_pk, it returns InvalidLogin and no session key, with the right
\* password too.
C23_EnvelopeBoundToServerKey ==
    (/\ Registered /\ cres.called
     /\ run.l2_in.exists
     /\ run.l2_in.m.envelope.ciphertext[1].of.aad = KeyToArr(server_kp.pk)
     /\ run.login_spk # server_kp.pk)
        => (~cres.ok /\ cres.err = "InvalidLoginError")

\* the right password, the honest file, nothing altered: only the server key
\* passed to finish is another one
C23_Witness ==
    /\ cres.called /\ run.login_spk # server_kp.pk
    /\ SamePassword /\ run.tamper = "none"
    /\ run.file_in.exists /\ HonestFile(run.file_in.s)
    /\ run.l2_in.m.envelope = reg_out.val.message.envelope
    /\ ~cres.ok

\* the transcript the server hashed in ServerLogin.start: hash of the l1
\* bytes, the l2 bytes, its nonce, its ephemeral key
ServerTranscript == slogin.s.ke2_state.hashed_transcript.hash

\* the second message the client received is the one the server sent
SecondMessageUnmodified == run.tamper \notin (L2Parts \cup EnvelopeParts)

\* C24: transcript binding. The l2 bytes ServerLogin.start passes to
\* generate_ke2 are the bytes of beta followed by the bytes of the envelope
\* of the password file; the l2 bytes ClientLogin.finish passes to
\* generate_ke3 are the bytes of beta and of the envelope of the message it
\* received; when that message is the one sent, the two byte strings are
\* the same. The l1 bytes the server binds are the bytes of the whole
\* LoginFirstMessage it received, alpha || ke1_message.
C24_TranscriptBinding ==
    /\ slogin.exists =>
          /\ ServerTranscript[1] = Hash(LoginFirstMessageToBytes(l1.m))
          /\ Len(ServerTranscript[1].hash) = ElemLen + KE1_MESSAGE_LEN
          /\ Len(ServerTranscript[2]) = ElemLen + RkrSize
          /\ SubSeq(ServerTranscript[2], ElemLen + 1, ElemLen + RkrSize) = RKRToBytes(run.file_in.s.envelope.v)
          /\ (l2.exists /\ SecondMessageUnmodified) =>
                ServerTranscript[2] = <<l2.m.beta>> \o RKRToBytes(l2.m.envelope)
    /\ (cres.called /\ cres.ok) =>
          cres.val.message.ke3_message.mac.data.hash[2] = <<run.l2_in.m.beta>> \o RKRToBytes(run.l2_in.m.envelope)
    /\ (cres.called /\ slogin.exists /\ SecondMessageUnmodified) =>
          ClientL2Bytes(run.l2_in.m) = ServerTranscript[2]

\* the client finished Ok on the second message as the server sent it
C24_Witness ==
    /\ slogin.exists /\ cres.called /\ cres.ok /\ SecondMessageUnmodified
    /\ run.tamper = "none"
    /\ ClientL2Bytes(run.l2_in.m) = ServerTranscript[2]

\* the three keys cut from okm: the export key returned to the caller and the
\* two keys the envelope was sealed (or opened) with
DerivedKeys(export_key, envelope) ==
    [enc_key |-> envelope.ciphertext[1].of.key,
     mac_key |-> envelope.hmac.key,
     export_key |-> export_key]

\* two slices of okm have no byte in common
Disjoint(a, b) == a.to <= b.from \/ b.to <= a.from

\* okm is the 96-byte expansion, with info "EnvU", of the OPRF output of the
\* password, and the keys are its three 32-byte slices in order
DerivedAsSpecified(keys, password) ==
    LET okm == keys.export_key.of
    IN /\ okm = HkdfExpand(okm.ikm, "EnvU", 96)
       /\ okm.ikm[1].hash[1] = password
       /\ keys.enc_key = Slice(okm, 0, 32)
       /\ keys.mac_key = Slice(okm, 32, 64)
       /\ keys.export_key = Slice(okm, 64, 96)
       /\ Disjoint(keys.enc_key, keys.mac_key)
       /\ Disjoint(keys.enc_key, keys.export_key)
       /\ Disjoint(keys.mac_key, keys.export_key)
       /\ keys.export_key \notin {keys.enc_key, keys.mac_key}

C26_NoOpHashPreservesInput ==
    call.fn = "slow_hash" =>
        /\ call.out.called =>
              /\ call.out.ok
              /\ Len(call.out.val) = Len(call.in)
              /\ \A i \in 1..Len(call.in) : call.out.val[i] = call.in[i]
        /\ call.again.called => call.again = call.out

\* the slow hash was called twice on a digest of three bytes, not all equal
C26_Witness ==
    /\ call.fn = "slow_hash" /\ call.again.called
    /\ Len(call.in) = 3 /\ call.in[1] # call.in[3]
    /\ call.out.val[3] = 255

\* the envelope is there exactly when the client's public key is
BothOrNeither(record) == record.envelope.some <=> record.client_s_pk.some

\* C27: in every ServerRegistration that start, finish or try_from returns,
\* the envelope is present if and only if client_s_pk is present.
C27_EnvelopeIffClientKey ==
    /\ BothOrNeither(PendingRecord)
    /\ ser.type = "ServerRegistration" =>
          /\ (ser.out.called /\ ser.out.ok) => BothOrNeither(ser.out.val)
          /\ (ser.again.called /\ ser.again.ok) => BothOrNeither(ser.again.val)
    /\ ser.type = "RegisterThirdMessage" =>
          (ser.rec.exists => BothOrNeither(ser.rec.s))

\* try_from returned a complete record, whose first byte differs from its key
C27_Witness ==
    /\ ser.type = "ServerRegistration"
    /\ ser.out.called /\ ser.out.ok
    /\ ser.out.val.envelope.some /\ ser.out.val.client_s_pk.some
    /\ ser.out.val.oprf_key # ser.out.val.client_s_pk.v

\* the envelope of the second message opens under the keys that
\* ClientLogin::finish derives from its state
EnvelopeOpens(self, l2m, server_s_pk) ==
    LET password_derived_key ==
            get_password_derived_key(self.password, l2m.beta, self.blinding_factor)
    IN /\ password_derived_key.ok
       /\ LET okm == HkdfExpand(password_derived_key.val, STR_ENVU, 3 * DERIVED_KEY_LEN)
          IN RKRDecrypt(l2m.envelope, Slice(okm, 0, DERIVED_KEY_LEN),
                        Slice(okm, DERIVED_KEY_LEN, 2 * DERIVED_KEY_LEN),
                        KeyToArr(server_s_pk)).ok

\* a step in which ClientLogin::finish returns a third message
ClientSendsThird ==
    /\ run'.n_clogin_finish > run.n_clogin_finish
    /\ cres'.called /\ cres'.ok

\* a step in which ServerLogin::finish returns a session key
ServerReturnsKey ==
    /\ run'.n_saccept > run.n_saccept
    /\ sres'.called /\ sres'.ok

\* the third message in flight is the client's, as sent or altered
ThirdFromClient == l3.exists /\ run.tamper \notin {"injected", "forged_l3"}

\* ClientLogin::finish of this exchange succeeded and returned this key
ClientReturnedKey(key) ==
    cres.called /\ cres.ok /\ cres.val.session_key = key

\* a third message comes from the client only in a finish that opened the
\* envelope, and is there only after such a finish
ThirdOnlyAfterOpening ==
    /\ ClientSendsThird =>
          /\ clogin.exists /\ l2.exists
          /\ EnvelopeOpens(clogin.s, l2.m, run'.login_spk)
          /\ l3' = InFlight(cres'.val.message)
    /\ ThirdFromClient' => (cres'.called /\ cres'.ok)

\* C28 as stated: a third message exists only after the envelope was opened,
\* and whatever the network does to the messages, ServerLogin::finish returns
\* a session key only after ClientLogin::finish of the same exchange
\* succeeded and returned the same key.
C28_ServerKeyOnlyAfterClientKey ==
    [][/\ ThirdOnlyAfterOpening
       /\ ServerReturnsKey => ClientReturnedKey(sres'.val)]_vars

\* C28, amended: the same, in the runs in which the third registration
\* message reached the server as the client sent it.
C28_ServerKeyOnlyAfterClientKeyOfRegisteredClient ==
    [][/\ ThirdOnlyAfterOpening
       /\ (ServerReturnsKey /\ ~run.r3_forged) => ClientReturnedKey(sres'.val)]_vars

\* the server turned down a third message the network made, then returned
\* the client's key on the client's third message
C28_Witness ==
    /\ ~run.r3_forged /\ run.tamper = "forged_l3"
    /\ run.n_sfinish = 2 /\ run.n_saccept = 1
    /\ sres.called /\ sres.ok
    /\ ClientReturnedKey(sres.val)

====
